---- MODULE Spec2Model ----
(***************************************************************************)
(* ds_lang: the bytecode compiler (BytecodeBuilder) and the stack virtual  *)
(* machine (VirtualMachine) of the script interpreter.                     *)
(*                                                                         *)
(* One behaviour is one session of a driver such as the tests' run():      *)
(* an input is chosen (a parsed program, or hand-written bytecode as in    *)
(* tests/test_vm.cpp), build() compiles it, add_function() and             *)
(* set_entry_function() load it, and reset() / step() drive the VM.        *)
(* Every public call is one action; an exception thrown by a call is       *)
(* recorded in `thrown` together with whatever the call had already        *)
(* changed before the throw.                                               *)
(***************************************************************************)
EXTENDS Integers, Sequences, FiniteSets, TLC

VARIABLES
    input,          \* what the driver was given: a source program or raw bytecode
    pc,             \* where the driver is: "build", "failed", "load", "run"
    functions,      \* BytecodeBuilder::functions_
    entry_func,     \* BytecodeBuilder::entry_func_   (NullOpt = std::nullopt)
    vm_functions,   \* VirtualMachine::functions_
    vm_entry_func,  \* VirtualMachine::entry_func_    (NullOpt = std::nullopt)
    stack,          \* VirtualMachine::stack_
    print_buffer,   \* VirtualMachine::print_buffer_
    call_stack,     \* VirtualMachine::call_stack_
    is_active,      \* VirtualMachine::is_active_
    return_value,   \* VirtualMachine::return_value_  (NullOpt = nullptr)
    last_call,      \* the public call made last
    thrown,         \* the exception that call ended with ("none": it returned)
    tokens,         \* Parser::tokens_, what Lexer::tokenize_range returned
    returned        \* what a unit call of a function returned (NullOpt: nothing yet)

vars == << input, pc, functions, entry_func, vm_functions, vm_entry_func, stack,
           print_buffer, call_stack, is_active, return_value, last_call, thrown,
           tokens, returned >>

front_vars == << tokens, returned >>

builder_vars == << functions, entry_func >>

vm_vars == << vm_functions, vm_entry_func, stack, print_buffer, call_stack,
              is_active, return_value >>

(***************************************************************************)
(* Bounds of the model.                                                    *)
(***************************************************************************)
\* i64 is modelled as a two's complement word of WordBits bits.
WordBits == 8
\* step() is not taken once the operand stack holds more than MaxStack values,
MaxStack == 4
\* the print buffer MaxPrint entries,
MaxPrint == 4
\* or the call stack MaxFrames frames.
MaxFrames == 3
\* Hand-written entry functions have at most MaxRawLen instructions.
MaxRawLen == 3
\* Generated statements nest at most MaxNest deep.
MaxNest == 2

\* std::optional and std::unique_ptr: NullOpt is the empty one, Some(v) holds v
NullOpt == << >>
Some(v) == << v >>
ValueOf(o) == o[1]

\* The value `int x;` stores in the new local.
UNINITIALISED_VALUED == 0

\* The "unpatched" jump target; as an index it lies past the end of every code.
INVALIDIPtr == 2147483647

(***************************************************************************)
(* i64 arithmetic                                                          *)
(***************************************************************************)
Modulus == 2 ^ WordBits
MinI64 == -(2 ^ (WordBits - 1))
MaxI64 == 2 ^ (WordBits - 1) - 1

\* the value of a machine word holding x
Wrap(x) == ((x - MinI64) % Modulus) + MinI64

Abs(x) == IF x < 0 THEN -x ELSE x

\* C++ integer division truncates toward zero
TruncDiv(a, b) ==
    IF (a < 0) = (b < 0) THEN Abs(a) \div Abs(b) ELSE -(Abs(a) \div Abs(b))

\* C++ remainder: a - (a / b) * b, the sign of the left operand
TruncMod(a, b) == a - TruncDiv(a, b) * b

truthy(v) == v # 0

(***************************************************************************)
(* Bytecode operations (bytecode.hpp)                                      *)
(***************************************************************************)
\* an instruction without operands: BytecodeAdd{}, ..., BytecodeReturn{},
\* BytecodePrint{}
Bytecode(kind) == [op |-> kind]
BytecodePushI64(v) == [op |-> "PushI64", value |-> v]
BytecodeLoadLocal(s) == [op |-> "LoadLocal", slot |-> s]
BytecodeStoreLocal(s) == [op |-> "StoreLocal", slot |-> s]
BytecodeJmp(t) == [op |-> "Jmp", target_ip |-> t]
BytecodeJmpFalse(t) == [op |-> "JmpFalse", target_ip |-> t]
BytecodeJmpTrue(t) == [op |-> "JmpTrue", target_ip |-> t]
BytecodeCall(f) == [op |-> "Call", func_id |-> f]
BytecodeCallArgs(f, n) == [op |-> "CallArgs", func_id |-> f, argc |-> n]
BytecodePrintString(s) == [op |-> "PrintString", content |-> s]

IsJump(o) == o.op \in {"Jmp", "JmpFalse", "JmpTrue"}

FunctionBytecode(c, nl, np) == [code |-> c, num_locals |-> nl, num_params |-> np]

Frame(fid, i, ls) == [func_id |-> fid, ip |-> i, locals |-> ls]

Zeros(n) == [i \in 1..n |-> 0]

(***************************************************************************)
(* The virtual machine (vm.cpp).  The private methods are operators on a   *)
(* record m of the VM's fields; m.thrown # "none" means the method threw,  *)
(* and m then holds the fields as the throw left them.                     *)
(***************************************************************************)
Throw(m, e) == [m EXCEPT !.thrown = e]

Ok(m) == m.thrown = "none"

push(m, v) == [m EXCEPT !.stack = Append(@, v)]

\* pop(): the stack without its top, or the underflow error
pop(m) ==
    IF Len(m.stack) = 0 THEN Throw(m, "VM stack underflow")
    ELSE [m EXCEPT !.stack = SubSeq(@, 1, Len(@) - 1)]

Top(m) == m.stack[Len(m.stack)]

Depth(m) == Len(m.call_stack)

SetIp(m, t) == [m EXCEPT !.call_stack[Depth(m)].ip = t]

\* do_return that reads the return value and leaves it on the stack
do_return_keeps_value(m) ==
    IF Len(m.stack) = 0
    THEN Throw(m, "VM return: missing return value on stack")
    ELSE LET m1 == [m EXCEPT !.return_value = Some(Top(m))]
         IN IF Depth(m1) = 0 THEN Throw(m1, "VM return: call stack empty")
            ELSE LET m2 == [m1 EXCEPT !.call_stack = SubSeq(@, 1, Len(@) - 1)]
                 IN IF Depth(m2) = 0
                    THEN [m2 EXCEPT !.is_active = FALSE]
                    ELSE m2

do_return(m) ==
    IF Len(m.stack) = 0
    THEN Throw(m, "VM return: missing return value on stack")
    ELSE LET ret == Top(m)
             m1 == [pop(m) EXCEPT !.return_value = Some(ret)]
         IN IF Depth(m1) = 0 THEN Throw(m1, "VM return: call stack empty")
            ELSE LET m2 == [m1 EXCEPT !.call_stack = SubSeq(@, 1, Len(@) - 1)]
                 IN IF Depth(m2) = 0
                    THEN [m2 EXCEPT !.is_active = FALSE]
                    ELSE push(m2, ret)

\* do_call that binds the arguments in the order they are popped
do_call_reversed(m, func_id, argc) ==
    IF func_id >= Len(m.functions)
    THEN Throw(m, "VM call: invalid function id")
    ELSE LET callee == m.functions[func_id + 1] IN
    IF argc # callee.num_params
    THEN Throw(m, "VM call: argc does not match callee.num_params")
    ELSE IF callee.num_locals < callee.num_params
    THEN Throw(m, "VM call: num_locals must be >= num_params")
    ELSE IF Len(m.stack) < argc
    THEN Throw(m, "VM call: not enough values on stack for args")
    ELSE LET n == Len(m.stack)
             locals == [i \in 1..callee.num_locals |->
                           IF i <= argc THEN m.stack[n - i + 1] ELSE 0]
             m1 == [m EXCEPT !.stack = SubSeq(@, 1, n - argc),
                             !.call_stack = Append(@, Frame(func_id, 0, locals))]
         IN IF Len(callee.code) = 0 THEN do_return(m1) ELSE m1

\* do_call without the test of argc against num_params
do_call_unchecked(m, func_id, argc) ==
    IF func_id >= Len(m.functions)
    THEN Throw(m, "VM call: invalid function id")
    ELSE LET callee == m.functions[func_id + 1] IN
    IF Len(m.stack) < argc
    THEN Throw(m, "VM call: not enough values on stack for args")
    ELSE LET n == Len(m.stack)
             args == SubSeq(m.stack, n - argc + 1, n)
             locals == [i \in 1..callee.num_locals |->
                           IF i <= argc THEN args[i] ELSE 0]
             m1 == [m EXCEPT !.stack = SubSeq(@, 1, n - argc),
                             !.call_stack = Append(@, Frame(func_id, 0, locals))]
         IN IF Len(callee.code) = 0 THEN do_return(m1) ELSE m1

do_call(m, func_id, argc) ==
    IF func_id >= Len(m.functions)
    THEN Throw(m, "VM call: invalid function id")
    ELSE LET callee == m.functions[func_id + 1] IN
    IF argc # callee.num_params
    THEN Throw(m, "VM call: argc does not match callee.num_params")
    ELSE IF callee.num_locals < callee.num_params
    THEN Throw(m, "VM call: num_locals must be >= num_params")
    ELSE IF Len(m.stack) < argc
    THEN Throw(m, "VM call: not enough values on stack for args")
    ELSE LET n == Len(m.stack)
             args == SubSeq(m.stack, n - argc + 1, n)
             locals == [i \in 1..callee.num_locals |->
                           IF i <= argc THEN args[i] ELSE 0]
             m1 == [m EXCEPT !.stack = SubSeq(@, 1, n - argc),
                             !.call_stack = Append(@, Frame(func_id, 0, locals))]
         IN IF Len(callee.code) = 0 THEN do_return(m1) ELSE m1

Bool(c) == IF c THEN 1 ELSE 0

\* what each two-operand instruction pushes for lhs and rhs
BinaryValue(op, lhs, rhs) ==
    CASE op = "Add" -> Wrap(lhs + rhs)
      [] op = "Sub" -> Wrap(lhs - rhs)
      [] op = "Mult" -> Wrap(lhs * rhs)
      [] op = "Div" -> Wrap(TruncDiv(lhs, rhs))
      [] op = "Mod" -> Wrap(TruncMod(lhs, rhs))
      [] op = "EQ" -> Bool(lhs = rhs)
      [] op = "NEQ" -> Bool(lhs # rhs)
      [] op = "LT" -> Bool(lhs < rhs)
      [] op = "LE" -> Bool(lhs <= rhs)
      [] op = "GT" -> Bool(lhs > rhs)
      [] op = "GE" -> Bool(lhs >= rhs)

\* a two-operand instruction: rhs = pop(), lhs = pop(), push(lhs op rhs)
BinaryOperation(m, op) ==
    LET m1 == pop(m) IN
    IF ~Ok(m1) THEN m1
    ELSE LET m2 == pop(m1) IN
         IF ~Ok(m2) THEN m2
         ELSE push(m2, BinaryValue(op, Top(m1), Top(m)))

\* DIV and MOD that push 0 for a zero right operand
DivisionOperation_zero_result(m, op, what) ==
    LET m1 == pop(m) IN
    IF ~Ok(m1) THEN m1
    ELSE LET m2 == pop(m1) IN
         IF ~Ok(m2) THEN m2
         ELSE IF Top(m) = 0 THEN push(m2, 0)
              ELSE push(m2, BinaryValue(op, Top(m1), Top(m)))

\* DIV and MOD: both operands are popped before the zero test
DivisionOperation(m, op, what) ==
    LET m1 == pop(m) IN
    IF ~Ok(m1) THEN m1
    ELSE LET m2 == pop(m1) IN
         IF ~Ok(m2) THEN m2
         ELSE IF Top(m) = 0 THEN Throw(m2, what)
              ELSE push(m2, BinaryValue(op, Top(m1), Top(m)))

\* NEG and NOT: push(f(pop()))
UnaryOperation(m, op) ==
    LET m1 == pop(m) IN
    IF ~Ok(m1) THEN m1
    ELSE push(m1, IF op = "NEG" THEN Wrap(-Top(m)) ELSE Bool(~truthy(Top(m))))

\* JMP_FALSE (when = FALSE) and JMP_TRUE (when = TRUE): cond = pop()
CondJump(m, o, when) ==
    LET m1 == pop(m) IN
    IF ~Ok(m1) THEN m1
    ELSE IF truthy(Top(m)) = when THEN SetIp(m1, o.target_ip) ELSE m1

\* LOAD_LOCAL: the range test, then push(fr.locals[o.slot])
LoadLocal(m, o) ==
    LET fr == m.call_stack[Depth(m)] IN
    IF o.slot >= Len(fr.locals)
    THEN Throw(m, "VM: LOAD_LOCAL out of range")
    ELSE push(m, fr.locals[o.slot + 1])

\* STORE_LOCAL that pops before it tests the slot
StoreLocal_pop_first(m, o) ==
    LET fr == m.call_stack[Depth(m)]
        m1 == pop(m)
    IN IF ~Ok(m1) THEN m1
       ELSE IF o.slot >= Len(fr.locals)
       THEN Throw(m1, "VM: STORE_LOCAL out of range")
       ELSE [m1 EXCEPT !.call_stack[Depth(m)].locals[o.slot + 1] = Top(m)]

\* STORE_LOCAL that writes the slot of every activation of the function
StoreLocal_shared(m, o) ==
    LET fr == m.call_stack[Depth(m)] IN
    IF o.slot >= Len(fr.locals)
    THEN Throw(m, "VM: STORE_LOCAL out of range")
    ELSE LET m1 == pop(m) IN
         IF ~Ok(m1) THEN m1
         ELSE [m1 EXCEPT !.call_stack =
                  [k \in 1..Depth(m) |->
                      IF m.call_stack[k].func_id = fr.func_id
                      THEN [m.call_stack[k] EXCEPT !.locals[o.slot + 1] = Top(m)]
                      ELSE m.call_stack[k]]]

\* STORE_LOCAL: the range test, then fr.locals[o.slot] = pop()
StoreLocal(m, o) ==
    LET fr == m.call_stack[Depth(m)] IN
    IF o.slot >= Len(fr.locals)
    THEN Throw(m, "VM: STORE_LOCAL out of range")
    ELSE LET m1 == pop(m) IN
         IF ~Ok(m1) THEN m1
         ELSE [m1 EXCEPT !.call_stack[Depth(m)].locals[o.slot + 1] = Top(m)]

\* PRINT that consumes the value it prints
exec_print_pops(m) ==
    IF Len(m.stack) = 0
    THEN Throw(m, "VM: PRINT requires a value on stack")
    ELSE [pop(m) EXCEPT !.print_buffer = Append(@, Top(m))]

\* PRINT: print_buffer_.push_back(stack_.back())
exec_print(m) ==
    IF Len(m.stack) = 0
    THEN Throw(m, "VM: PRINT requires a value on stack")
    ELSE [m EXCEPT !.print_buffer = Append(@, Top(m))]

\* PRINT_STRING, which vm.cpp does not handle: the literal goes to the print
\* buffer and the stack is not touched
exec_print_string(m, o) == [m EXCEPT !.print_buffer = Append(@, o.content)]

exec_op(m, o) ==
    CASE o.op = "PushI64" -> push(m, o.value)
      [] o.op \in {"Add", "Sub", "Mult", "EQ", "NEQ", "LT", "LE", "GT", "GE"} ->
            BinaryOperation(m, o.op)
      [] o.op = "Div" -> DivisionOperation(m, "Div", "VM: division by zero")
      [] o.op = "Mod" -> DivisionOperation(m, "Mod", "VM: modulo by zero")
      [] o.op \in {"NEG", "NOT"} -> UnaryOperation(m, o.op)
      [] o.op = "Pop" -> pop(m)
      [] o.op = "LoadLocal" -> LoadLocal(m, o)
      [] o.op = "StoreLocal" -> StoreLocal(m, o)
      [] o.op = "Jmp" -> SetIp(m, o.target_ip)
      [] o.op = "JmpFalse" -> CondJump(m, o, FALSE)
      [] o.op = "JmpTrue" -> CondJump(m, o, TRUE)
      [] o.op = "Call" -> do_call(m, o.func_id, 0)
      [] o.op = "CallArgs" -> do_call(m, o.func_id, o.argc)
      [] o.op = "Return" -> do_return(m)
      [] o.op = "Print" -> exec_print(m)
      [] o.op = "PrintString" -> exec_print_string(m, o)

\* step() without its is_active_ test
step_while_inactive(m) ==
    IF Depth(m) = 0
    THEN Throw(m, "VM: internal error (active but no frames)")
    ELSE LET fr == m.call_stack[Depth(m)]
             f == m.functions[fr.func_id + 1]
         IN IF fr.ip >= Len(f.code)
            THEN Throw(m, "VM: fell off end of function without return")
            ELSE exec_op(SetIp(m, fr.ip + 1), f.code[fr.ip + 1])

\* step() that executes the instruction without advancing ip
step_in_place(m) ==
    IF ~m.is_active THEN Throw(m, "VM: step() called while inactive")
    ELSE IF Depth(m) = 0
    THEN Throw(m, "VM: internal error (active but no frames)")
    ELSE LET fr == m.call_stack[Depth(m)]
             f == m.functions[fr.func_id + 1]
         IN IF fr.ip >= Len(f.code)
            THEN Throw(m, "VM: fell off end of function without return")
            ELSE exec_op(m, f.code[fr.ip + 1])

\* step() that halts the VM when the current frame has run out of code
step_halts_at_end(m) ==
    IF ~m.is_active THEN Throw(m, "VM: step() called while inactive")
    ELSE IF Depth(m) = 0
    THEN Throw(m, "VM: internal error (active but no frames)")
    ELSE LET fr == m.call_stack[Depth(m)]
             f == m.functions[fr.func_id + 1]
         IN IF fr.ip >= Len(f.code)
            THEN [m EXCEPT !.is_active = FALSE]
            ELSE exec_op(SetIp(m, fr.ip + 1), f.code[fr.ip + 1])

step(m) ==
    IF ~m.is_active THEN Throw(m, "VM: step() called while inactive")
    ELSE IF Depth(m) = 0
    THEN Throw(m, "VM: internal error (active but no frames)")
    ELSE LET fr == m.call_stack[Depth(m)]
             f == m.functions[fr.func_id + 1]
         IN IF fr.ip >= Len(f.code)
            THEN Throw(m, "VM: fell off end of function without return")
            ELSE exec_op(SetIp(m, fr.ip + 1), f.code[fr.ip + 1])

\* step() is about to evaluate INT64_MIN / -1 or INT64_MIN % -1, which C++
\* leaves undefined
DivisionOverflows(m) ==
    /\ m.is_active
    /\ Depth(m) > 0
    /\ LET fr == m.call_stack[Depth(m)]
           f == m.functions[fr.func_id + 1]
       IN /\ fr.ip < Len(f.code)
          /\ f.code[fr.ip + 1].op \in {"Div", "Mod"}
    /\ Len(m.stack) >= 2
    /\ Top(m) = -1
    /\ m.stack[Len(m.stack) - 1] = MinI64

\* step() is about to evaluate lhs + rhs, lhs - rhs or lhs * rhs with a result
\* outside i64, or -INT64_MIN, which C++ leaves undefined
SignedOverflows(m) ==
    /\ m.is_active
    /\ Depth(m) > 0
    /\ LET fr == m.call_stack[Depth(m)]
           f == m.functions[fr.func_id + 1]
           n == Len(m.stack)
       IN /\ fr.ip < Len(f.code)
          /\ LET op == f.code[fr.ip + 1].op IN
             \/ /\ op \in {"Add", "Sub", "Mult"}
                /\ n >= 2
                /\ LET lhs == m.stack[n - 1]
                       rhs == m.stack[n]
                       exact == CASE op = "Add" -> lhs + rhs
                                  [] op = "Sub" -> lhs - rhs
                                  [] op = "Mult" -> lhs * rhs
                   IN exact < MinI64 \/ exact > MaxI64
             \/ op = "NEG" /\ n >= 1 /\ m.stack[n] = MinI64

\* What a call of step() can do.  An undefined operation either wraps, as
\* step(m) has it, or traps: the division kills the process with SIGFPE, the
\* overflow of + - * and unary - with SIGABRT where the build traps on it.
step_outcomes(m) ==
    { step(m) }
    \cup (IF DivisionOverflows(m) THEN { [m EXCEPT !.signal = "SIGFPE"] } ELSE { })
    \cup (IF SignedOverflows(m) THEN { [m EXCEPT !.signal = "SIGABRT"] } ELSE { })

\* reset() that leaves the operand stack as it finds it
reset_keeps_stack(m) ==
    IF m.entry_func = NullOpt THEN Throw(m, "reset: entry function not set")
    ELSE LET fid == ValueOf(m.entry_func)
             f == m.functions[fid + 1]
         IN [m EXCEPT !.print_buffer = << >>,
                      !.call_stack = << Frame(fid, 0, Zeros(f.num_locals)) >>,
                      !.is_active = Len(f.code) # 0]

reset(m) ==
    IF m.entry_func = NullOpt THEN Throw(m, "reset: entry function not set")
    ELSE LET fid == ValueOf(m.entry_func)
             f == m.functions[fid + 1]
         IN [m EXCEPT !.stack = << >>,
                      !.print_buffer = << >>,
                      !.call_stack = << Frame(fid, 0, Zeros(f.num_locals)) >>,
                      !.is_active = Len(f.code) # 0]

add_function(m, fn) == [m EXCEPT !.functions = Append(@, fn)]

set_entry_function(m, func_id) ==
    IF func_id >= Len(m.functions)
    THEN Throw(m, "set_entry_function: invalid func_id")
    ELSE [m EXCEPT !.entry_func = Some(func_id)]

(***************************************************************************)
(* The syntax tree (parser.hpp)                                            *)
(***************************************************************************)
IntegerExpression(v) == [kind |-> "IntegerExpression", value |-> v]
IdentifierExpression(n) == [kind |-> "IdentifierExpression", name |-> n]
UnaryExpression(o, r) == [kind |-> "UnaryExpression", op |-> o, rhs |-> r]
BinaryExpression(o, l, r) ==
    [kind |-> "BinaryExpression", op |-> o, lhs |-> l, rhs |-> r]
\* callee is the callee's IdentifierExpression, args a sequence of expressions
CallExpression(c, as) == [kind |-> "CallExpression", callee |-> c, args |-> as]
StructAccessExpression(l, f) ==
    [kind |-> "StructAccessExpression", lhs |-> l, field_name |-> f]

IntDeclarationAssignmentStatement(n, e) ==
    [kind |-> "IntDeclarationAssignmentStatement", identifier |-> n, expr |-> e]
IntDeclarationStatement(n) ==
    [kind |-> "IntDeclarationStatement", identifier |-> n]
IntAssignmentStatement(n, e) ==
    [kind |-> "IntAssignmentStatement", identifier |-> n, expr |-> e]
PrintStatement(e) == [kind |-> "PrintStatement", expr |-> e]
PrintStringStatement(c) == [kind |-> "PrintStringStatement", content |-> c]
ReturnStatement(e) == [kind |-> "ReturnStatement", expr |-> e]
ScopeStatement(sts) == [kind |-> "ScopeStatement", scope |-> sts]
IfStatement(c, t, e) ==
    [kind |-> "IfStatement", if_expr |-> c, then_scope |-> t, else_scope |-> e]
WhileStatement(c, b) ==
    [kind |-> "WhileStatement", while_expr |-> c, do_scope |-> b]
FunctionStatement(n, ps, sts) ==
    [kind |-> "FunctionStatement", func_name |-> n, vars |-> ps, statements |-> sts]
StructStatement(n, fs) ==
    [kind |-> "StructStatement", struct_name |-> n, vars |-> fs]
StructDeclarationAssignmentStatement(t, n, es) ==
    [kind |-> "StructDeclarationAssignmentStatement", struct_name |-> t,
     var_name |-> n, exprs |-> es]
StructDeclarationStatement(t, n) ==
    [kind |-> "StructDeclarationStatement", struct_name |-> t, var_name |-> n]
StructAssignmentStatement(n, es) ==
    [kind |-> "StructAssignmentStatement", var_name |-> n, exprs |-> es]
StructVariableScopeStatement(es) ==
    [kind |-> "StructVariableScopeStatement", exprs |-> es]

(***************************************************************************)
(* The bytecode compiler (bytecode_builder.cpp).  The methods are          *)
(* operators on a record b of the builder's fields; b.thrown # "none"      *)
(* means a method threw, and every later method then leaves b alone (the   *)
(* exception unwinds build()).  FunctionBytecode::seen_symbols, the debug  *)
(* names of the slots, is left out: nothing reads it.                      *)
(***************************************************************************)
EmptyMap == [x \in {} |-> 0]

Contains(map, key) == key \in DOMAIN map

Emplace(map, key, v) == (key :> v) @@ map

Scope(ls, saved) == [locals |-> ls, saved_next_slot |-> saved]

LocalInfo(k, base, sname, size) ==
    [kind |-> k, base_slot |-> base, struct_name |-> sname,
     struct_size_slots |-> size]

NewBuilder ==
    [functions |-> << >>, func_ids |-> EmptyMap, entry_func |-> NullOpt,
     struct_defs |-> EmptyMap, active_func |-> 0, scopes |-> << >>,
     next_slot |-> 0, max_slot |-> 0, thrown |-> "none", signal |-> "none",
     unreachable |-> "returns"]

\* std::unreachable() that is reached is undefined behaviour: the build
\* either has no code there, and the lambda returns having done nothing, or
\* has a trap instruction there, and the process is killed by SIGILL.
UnreachableOutcomes == { "returns", "traps" }

\* a builder of a build where a reached std::unreachable() does as u says
BuilderWhere(u) == [NewBuilder EXCEPT !.unreachable = u]

Killed == "killed"

\* std::unreachable(), reached while b compiles
Unreachable(b) ==
    IF b.unreachable = "traps"
    THEN [b EXCEPT !.signal = "SIGILL", !.thrown = Killed]
    ELSE b

fn(b) == b.functions[b.active_func + 1]

ip(b) == Len(fn(b).code)

emit(b, o) ==
    IF ~Ok(b) THEN b
    ELSE [b EXCEPT !.functions[b.active_func + 1].code = Append(@, o)]

\* patch_jump that leaves the jump as it was emitted
patch_jump_skipped(b, where, target) == b

\* patch_jump that overwrites the target of a jump already patched
patch_jump_again(b, where, target) ==
    IF ~Ok(b) THEN b
    ELSE IF target = INVALIDIPtr THEN Throw(b, "patch_jump: target INVALIDIPtr")
    ELSE IF where >= ip(b) THEN Throw(b, "vector::at: out of range")
    ELSE IF ~IsJump(fn(b).code[where + 1]) THEN Throw(b, "patch_jump: not a jump op")
    ELSE [b EXCEPT !.functions[b.active_func + 1].code[where + 1].target_ip
                       = target]

patch_jump(b, where, target) ==
    IF ~Ok(b) THEN b
    ELSE IF target = INVALIDIPtr THEN Throw(b, "patch_jump: target INVALIDIPtr")
    ELSE IF where >= ip(b) THEN Throw(b, "vector::at: out of range")
    ELSE LET o == fn(b).code[where + 1] IN
         IF ~IsJump(o) THEN Throw(b, "patch_jump: not a jump op")
         ELSE IF o.target_ip # INVALIDIPtr
         THEN Throw(b, "patch_jump: already patched")
         ELSE [b EXCEPT !.functions[b.active_func + 1].code[where + 1].target_ip
                            = target]

\* the outermost binding of name
FindLocal_outermost(b, name) ==
    LET hits == {i \in 1..Len(b.scopes) : Contains(b.scopes[i].locals, name)}
    IN IF hits = {} THEN NullOpt
       ELSE Some(b.scopes[CHOOSE i \in hits : \A j \in hits : i <= j].locals[name])

\* end_scope that leaves next_slot_ where the scope took it
end_scope_keeps(b) ==
    IF ~Ok(b) THEN b
    ELSE IF Len(b.scopes) = 0 THEN Throw(b, "end_scope: no scope")
    ELSE [b EXCEPT !.scopes = SubSeq(@, 1, Len(@) - 1)]

\* the innermost binding of name, walking scopes_ from the back
FindLocal(b, name) ==
    LET hits == {i \in 1..Len(b.scopes) : Contains(b.scopes[i].locals, name)}
    IN IF hits = {} THEN NullOpt
       ELSE Some(b.scopes[CHOOSE i \in hits : \A j \in hits : j <= i].locals[name])

RECURSIVE BindParams(_, _, _)
\* the loop of begin_function_locals over params[i..]
BindParams(b, params, i) ==
    IF ~Ok(b) \/ i > Len(params) THEN b
    ELSE IF Contains(b.scopes[1].locals, params[i])
    THEN Throw(b, "Duplicate parameter")
    ELSE BindParams(
            [b EXCEPT !.scopes[1].locals =
                 Emplace(@, params[i], LocalInfo("Int", i - 1, NullOpt, NullOpt))],
            params, i + 1)

\* begin_function_locals, after the loop
EndParams(b, params) ==
    IF ~Ok(b) THEN b
    ELSE [b EXCEPT !.next_slot = Len(params), !.max_slot = Len(params)]

begin_function_locals(b, params) ==
    IF ~Ok(b) THEN b
    ELSE EndParams(BindParams([b EXCEPT !.scopes = << Scope(EmptyMap, 0) >>,
                                        !.next_slot = 0,
                                        !.max_slot = 0], params, 1), params)

begin_scope(b) ==
    IF ~Ok(b) THEN b
    ELSE [b EXCEPT !.scopes = Append(@, Scope(EmptyMap, b.next_slot))]

end_scope(b) ==
    IF ~Ok(b) THEN b
    ELSE IF Len(b.scopes) = 0 THEN Throw(b, "end_scope: no scope")
    ELSE [b EXCEPT !.next_slot = b.scopes[Len(b.scopes)].saved_next_slot,
                   !.scopes = SubSeq(@, 1, Len(@) - 1)]

Max(a, c) == IF a >= c THEN a ELSE c

\* declare_local that binds a name of the innermost scope again
declare_local_again(b, name) ==
    IF ~Ok(b) THEN b
    ELSE IF Len(b.scopes) = 0 THEN Throw(b, "declare_local: no scope")
    ELSE [b EXCEPT !.scopes[Len(b.scopes)].locals =
                       Emplace(@, name, LocalInfo("Int", b.next_slot, NullOpt, NullOpt)),
                   !.next_slot = b.next_slot + 1,
                   !.max_slot = Max(b.max_slot, b.next_slot + 1)]

\* declare_local: the builder afterwards; the slot it returns is b.next_slot
declare_local(b, name) ==
    IF ~Ok(b) THEN b
    ELSE IF Len(b.scopes) = 0 THEN Throw(b, "declare_local: no scope")
    ELSE IF Contains(b.scopes[Len(b.scopes)].locals, name)
    THEN Throw(b, "Variable already declared in this scope")
    ELSE [b EXCEPT !.scopes[Len(b.scopes)].locals =
                       Emplace(@, name, LocalInfo("Int", b.next_slot, NullOpt, NullOpt)),
                   !.next_slot = b.next_slot + 1,
                   !.max_slot = Max(b.max_slot, b.next_slot + 1)]

\* resolve_struct as a test: does it throw
UnknownStruct(b, struct_name) == ~Contains(b.struct_defs, struct_name)

\* declare_struct_local_info: the builder afterwards; the LocalInfo it
\* returns has base_slot b.next_slot
declare_struct_local_info(b, var_name, struct_type) ==
    IF ~Ok(b) THEN b
    ELSE IF Len(b.scopes) = 0
    THEN Throw(b, "declare_struct_local_info: no scope")
    ELSE IF Contains(b.scopes[Len(b.scopes)].locals, var_name)
    THEN Throw(b, "Variable already declared in this scope")
    ELSE IF UnknownStruct(b, struct_type) THEN Throw(b, "Unknown struct type")
    ELSE LET n == Len(b.struct_defs[struct_type]) IN
         [b EXCEPT !.scopes[Len(b.scopes)].locals =
                       Emplace(@, var_name,
                               LocalInfo("Struct", b.next_slot, Some(struct_type), Some(n))),
                   !.next_slot = b.next_slot + n,
                   !.max_slot = Max(b.max_slot, b.next_slot + n)]

\* resolve_local: the exception it ends with, "none" when it returns
resolve_local_error(b, name) ==
    LET f == FindLocal(b, name) IN
    IF f = NullOpt THEN "Undefined variable"
    ELSE IF ValueOf(f).kind # "Int" THEN "Struct value used as int"
    ELSE "none"

\* resolve_local: the slot it returns
resolve_local(b, name) == ValueOf(FindLocal(b, name)).base_slot

resolve_func_error(b, name) ==
    IF Contains(b.func_ids, name) THEN "none" ELSE "Undefined function"

resolve_func(b, name) == b.func_ids[name]

ends_with_return(f) == Len(f.code) # 0 /\ f.code[Len(f.code)] = Bytecode("Return")

\* the instruction build_expression emits for a BinaryOp other than And, Or
\* a PrintStringStatement compiled to its instruction, twice
build_print_string_twice(b, s) ==
    emit(emit(b, BytecodePrintString(s.content)), BytecodePrintString(s.content))

\* build_statement, PrintStringStatement: emit(BytecodePrintString{s.content})
build_print_string(b, s) == emit(b, BytecodePrintString(s.content))

BinaryInstruction(o) ==
    CASE o = "Add" -> Bytecode("Add")
      [] o = "Sub" -> Bytecode("Sub")
      [] o = "Mul" -> Bytecode("Mult")
      [] o = "Div" -> Bytecode("Div")
      [] o = "Mod" -> Bytecode("Mod")
      [] o = "Eq" -> Bytecode("EQ")
      [] o = "Neq" -> Bytecode("NEQ")
      [] o = "Lt" -> Bytecode("LT")
      [] o = "Le" -> Bytecode("LE")
      [] o = "Gt" -> Bytecode("GT")
      [] o = "Ge" -> Bytecode("GE")

\* std::find over field_names: the offset of the first field called field
FieldOffset(field_names, field) ==
    (CHOOSE i \in 1..Len(field_names) :
        /\ field_names[i] = field
        /\ \A j \in 1..(i - 1) : field_names[j] # field) - 1

RECURSIVE build_expression(_, _)
RECURSIVE build_arguments(_, _, _)
RECURSIVE build_statement(_, _)
RECURSIVE build_scope_statements(_, _, _)
RECURSIVE build_struct_initializers(_, _, _, _)

\* patch_jump(where, ip())
PatchHere(b, where) == patch_jump(b, where, ip(b))

\* `a && b`, `a || b`, from the end of the right operand's two NOTs (b4):
\* jend = emit(Jmp); patch_jump(jump_at, ip()); emit(push short);
\* patch_jump(jend, ip())
ShortCircuitEnd(b4, jump_at, short) ==
    PatchHere(emit(PatchHere(emit(b4, BytecodeJmp(INVALIDIPtr)), jump_at),
                   BytecodePushI64(short)),
              ip(b4))

\* the right operand left on the stack as it is, without the two NOTs
ShortCircuitRhs_raw(b1, e, jump, short) ==
    ShortCircuitEnd(build_expression(emit(b1, jump), e.rhs), ip(b1), short)

\* ... from the end of the left operand (b1): jump_at = emit(jump);
\* build_expression(rhs); emit(NOT); emit(NOT)
ShortCircuitRhs(b1, e, jump, short) ==
    ShortCircuitEnd(
        emit(emit(build_expression(emit(b1, jump), e.rhs), Bytecode("NOT")),
             Bytecode("NOT")),
        ip(b1), short)

\* both operands evaluated, each normalised by two NOTs, then multiplied or added
build_short_circuit_eager(b, e, jump, short) ==
    emit(emit(emit(build_expression(
                      emit(emit(build_expression(b, e.lhs), Bytecode("NOT")), Bytecode("NOT")),
                      e.rhs),
                   Bytecode("NOT")),
              Bytecode("NOT")),
         IF short = 0 THEN Bytecode("Mult") ELSE Bytecode("Add"))

\* `a && b` (jump = JmpFalse, short = 0) and `a || b` (jump = JmpTrue, short = 1)
build_short_circuit(b, e, jump, short) ==
    ShortCircuitRhs(build_expression(b, e.lhs), e, jump, short)

\* the StructAccessExpression case once the variable is found
StructFieldLoad(b, local_info, field_names, field_name) ==
    IF \A i \in 1..Len(field_names) : field_names[i] # field_name
    THEN Throw(b, "Unknown field")
    ELSE emit(b, BytecodeLoadLocal(
                    local_info.base_slot + FieldOffset(field_names, field_name)))

StructLocalLoad(b, local_info, field_name) ==
    IF local_info.kind # "Struct"
    THEN Throw(b, "Field access on non-struct variable")
    ELSE StructFieldLoad(b, local_info,
                         b.struct_defs[ValueOf(local_info.struct_name)], field_name)

build_struct_access(b, e) ==
    IF e.lhs.kind # "IdentifierExpression"
    THEN Throw(b, "Nested struct access is not supported yet (only x.field)")
    ELSE IF FindLocal(b, e.lhs.name) = NullOpt THEN Throw(b, "Undefined variable")
    ELSE StructLocalLoad(b, ValueOf(FindLocal(b, e.lhs.name)), e.field_name)

\* the CallExpression case once the arguments are compiled (b1)
EmitCall(b1, name, argc) ==
    IF ~Ok(b1) THEN b1
    ELSE IF resolve_func_error(b1, name) # "none"
    THEN Throw(b1, resolve_func_error(b1, name))
    ELSE IF argc = 0
    THEN emit(b1, BytecodeCall(resolve_func(b1, name)))
    ELSE emit(b1, BytecodeCallArgs(resolve_func(b1, name), argc))

build_call(b, e) ==
    IF e.callee.kind # "IdentifierExpression"
    THEN Throw(b, "CallExpression callee must be IdentifierExpression")
    ELSE EmitCall(build_arguments(b, e.args, 1), e.callee.name, Len(e.args))

build_expression(b, e) ==
    IF ~Ok(b) THEN b
    ELSE CASE e.kind = "IntegerExpression" -> emit(b, BytecodePushI64(e.value))
      [] e.kind = "IdentifierExpression" ->
            IF resolve_local_error(b, e.name) # "none"
            THEN Throw(b, resolve_local_error(b, e.name))
            ELSE emit(b, BytecodeLoadLocal(resolve_local(b, e.name)))
      [] e.kind = "UnaryExpression" ->
            emit(build_expression(b, e.rhs),
                 IF e.op = "Neg" THEN Bytecode("NEG") ELSE Bytecode("NOT"))
      [] e.kind = "BinaryExpression" ->
            IF e.op = "And"
            THEN build_short_circuit(b, e, BytecodeJmpFalse(INVALIDIPtr), 0)
            ELSE IF e.op = "Or"
            THEN build_short_circuit(b, e, BytecodeJmpTrue(INVALIDIPtr), 1)
            ELSE emit(build_expression(build_expression(b, e.lhs), e.rhs),
                      BinaryInstruction(e.op))
      [] e.kind = "CallExpression" -> build_call(b, e)
      [] e.kind = "StructAccessExpression" -> build_struct_access(b, e)

\* the loop of the CallExpression case over args[i..]
build_arguments(b, args, i) ==
    IF ~Ok(b) \/ i > Len(args) THEN b
    ELSE build_arguments(build_expression(b, args[i]), args, i + 1)

\* a block: begin_scope(); build_scope_statements(sts); end_scope()
build_block(b, sts) == end_scope(build_scope_statements(begin_scope(b), sts, 1))

\* IfStatement that emits the jump and the else part for an empty else too
IfElse_always(b3, s, jf) ==
    PatchHere(build_block(PatchHere(emit(b3, BytecodeJmp(INVALIDIPtr)), jf),
                          s.else_scope),
              ip(b3))

\* IfStatement from the end of the then-block (b3); jf is the JmpFalse
IfElse(b3, s, jf) ==
    IF Len(s.else_scope) # 0
    THEN PatchHere(build_block(PatchHere(emit(b3, BytecodeJmp(INVALIDIPtr)), jf),
                               s.else_scope),
                   ip(b3))
    ELSE PatchHere(b3, jf)

\* IfStatement from the end of the condition (b1): jf = emit(JmpFalse); then-block
IfThen(b1, s) ==
    IfElse(build_block(emit(b1, BytecodeJmpFalse(INVALIDIPtr)), s.then_scope),
           s, ip(b1))

build_if(b, s) == IfThen(build_expression(b, s.if_expr), s)

\* WhileStatement from the end of the condition (b1): jf = emit(JmpFalse);
\* body; emit(Jmp{start}); patch_jump(jf, ip())
\* WhileStatement that emits no jump back to the condition
WhileBody_once(b1, s, start) ==
    PatchHere(build_block(emit(b1, BytecodeJmpFalse(INVALIDIPtr)), s.do_scope),
              ip(b1))

WhileBody(b1, s, start) ==
    PatchHere(emit(build_block(emit(b1, BytecodeJmpFalse(INVALIDIPtr)), s.do_scope),
                   BytecodeJmp(start)),
              ip(b1))

build_while(b, s) == WhileBody(build_expression(b, s.while_expr), s, ip(b))

build_struct_declaration_assignment(b, st) ==
    IF UnknownStruct(b, st.struct_name) THEN Throw(b, "Unknown struct type")
    ELSE IF Len(st.exprs) # Len(b.struct_defs[st.struct_name])
    THEN Throw(b, "Struct initializer arity mismatch")
    ELSE build_struct_initializers(
            declare_struct_local_info(b, st.var_name, st.struct_name),
            st.exprs, b.next_slot, 1)

\* PrintStatement that leaves the printed value on the stack
build_print_keeps(b, st) == emit(build_expression(b, st.expr), Bytecode("Print"))

\* PrintStatement: the expression, PRINT, and POP for the value PRINT left
build_print(b, st) ==
    emit(emit(build_expression(b, st.expr), Bytecode("Print")), Bytecode("Pop"))

\* `int x = e;` that compiles e before it declares x
build_declaration_assignment_late(b, st) ==
    emit(declare_local(build_expression(b, st.expr), st.identifier),
         BytecodeStoreLocal(b.next_slot))

\* IntDeclarationAssignmentStatement: slot = declare_local(identifier), the
\* expression, STORE_LOCAL slot
build_declaration_assignment(b, st) ==
    emit(build_expression(declare_local(b, st.identifier), st.expr),
         BytecodeStoreLocal(b.next_slot))

build_statement(b, st) ==
    IF ~Ok(b) THEN b
    ELSE CASE st.kind = "IntDeclarationAssignmentStatement" ->
            build_declaration_assignment(b, st)
      [] st.kind = "IntDeclarationStatement" ->
            emit(emit(declare_local(b, st.identifier),
                      BytecodePushI64(UNINITIALISED_VALUED)),
                 BytecodeStoreLocal(b.next_slot))
      [] st.kind = "IntAssignmentStatement" ->
            IF resolve_local_error(b, st.identifier) # "none"
            THEN Throw(b, resolve_local_error(b, st.identifier))
            ELSE emit(build_expression(b, st.expr),
                      BytecodeStoreLocal(resolve_local(b, st.identifier)))
      [] st.kind = "PrintStatement" -> build_print(b, st)
      [] st.kind = "PrintStringStatement" -> build_print_string(b, st)
      [] st.kind = "ReturnStatement" ->
            emit(build_expression(b, st.expr), Bytecode("Return"))
      [] st.kind = "ScopeStatement" -> build_block(b, st.scope)
      [] st.kind = "IfStatement" -> build_if(b, st)
      [] st.kind = "WhileStatement" -> build_while(b, st)
      [] st.kind = "FunctionStatement" ->
            Throw(b, "Nested functions are not supported")
      [] st.kind = "StructStatement" ->
            Throw(b, "Structs must not be declared inside of function scopes.")
      [] st.kind = "StructDeclarationAssignmentStatement" ->
            build_struct_declaration_assignment(b, st)
      [] st.kind = "StructDeclarationStatement" -> Unreachable(b)
      [] st.kind = "StructAssignmentStatement" -> Unreachable(b)
      [] st.kind = "StructVariableScopeStatement" -> Unreachable(b)

\* build_scope_statements: the loop over sts[i..]
build_scope_statements(b, sts, i) ==
    IF ~Ok(b) \/ i > Len(sts) THEN b
    ELSE build_scope_statements(build_statement(b, sts[i]), sts, i + 1)

\* the loop of the StructDeclarationAssignmentStatement case over exprs[i..]
build_struct_initializers(b, exprs, base_slot, i) ==
    IF ~Ok(b) \/ i > Len(exprs) THEN b
    ELSE build_struct_initializers(
            emit(build_expression(b, exprs[i]),
                 BytecodeStoreLocal(base_slot + i - 1)),
            exprs, base_slot, i + 1)

IsFunctionStatement(st) == st.kind = "FunctionStatement"

RECURSIVE RegisterTopLevel_lenient(_, _, _)
\* the first loop of build() that skips what is neither function nor struct
RegisterTopLevel_lenient(b, program, i) ==
    IF ~Ok(b) \/ i > Len(program) THEN b
    ELSE LET st == program[i] IN
         IF st.kind = "StructStatement" /\ Contains(b.struct_defs, st.struct_name)
         THEN Throw(b, "Duplicate struct")
         ELSE RegisterTopLevel_lenient(
                 IF st.kind = "StructStatement"
                 THEN [b EXCEPT !.struct_defs = Emplace(@, st.struct_name, st.vars)]
                 ELSE b,
                 program, i + 1)

RECURSIVE RegisterTopLevel(_, _, _)
\* build(), first loop: collect the functions, register the structs
RegisterTopLevel(b, program, i) ==
    IF ~Ok(b) \/ i > Len(program) THEN b
    ELSE LET st == program[i] IN
         IF st.kind = "FunctionStatement" THEN RegisterTopLevel(b, program, i + 1)
         ELSE IF st.kind = "StructStatement"
         THEN IF Contains(b.struct_defs, st.struct_name)
              THEN Throw(b, "Duplicate struct")
              ELSE RegisterTopLevel(
                      [b EXCEPT !.struct_defs = Emplace(@, st.struct_name, st.vars)],
                      program, i + 1)
         ELSE Throw(b, "Only function and struct declarations allowed at top level")

RECURSIVE RegisterFunctions(_, _, _)
\* build(), second loop: give every function its ID and an empty bytecode
RegisterFunctions(b, funcs, i) ==
    IF ~Ok(b) \/ i > Len(funcs) THEN b
    ELSE LET f == funcs[i] IN
         IF Contains(b.func_ids, f.func_name) THEN Throw(b, "Duplicate function")
         ELSE RegisterFunctions(
                 [b EXCEPT !.func_ids = Emplace(@, f.func_name, Len(b.functions)),
                           !.functions = Append(@, FunctionBytecode(
                                << >>, Len(f.vars), Len(f.vars)))],
                 funcs, i + 1)

\* fn().num_locals = next_slot_, the count at the end of the body
SetNumLocals_final(b) ==
    IF ~Ok(b) THEN b
    ELSE [b EXCEPT !.functions[b.active_func + 1].num_locals = b.next_slot]

\* build(), pass 2 for one function: fn().num_locals = max_slot_
SetNumLocals(b) ==
    IF ~Ok(b) THEN b
    ELSE [b EXCEPT !.functions[b.active_func + 1].num_locals = b.max_slot]

\* ... if (!ends_with_return(fn())) { emit(push 0); emit(return); }
ImplicitReturn(b) ==
    IF ends_with_return(fn(b)) THEN b
    ELSE emit(emit(b, BytecodePushI64(0)), Bytecode("Return"))

\* ... fn().code.clear(); fn().num_params = f->vars.size()
ClearFunction(b, f) ==
    [b EXCEPT !.functions[b.active_func + 1].code = << >>,
              !.functions[b.active_func + 1].num_params = Len(f.vars)]

\* ... active_func_ = resolve_func(f->func_name)
SetActive(b, f) == [b EXCEPT !.active_func = resolve_func(b, f.func_name)]

CompileFunction(b, f) ==
    SetNumLocals(ImplicitReturn(
        build_scope_statements(
            begin_function_locals(ClearFunction(SetActive(b, f), f), f.vars),
            f.statements, 1)))

RECURSIVE CompileFunctions(_, _, _)
\* build(), pass 2: the loop over funcs[i..]
CompileFunctions(b, funcs, i) ==
    IF ~Ok(b) \/ i > Len(funcs) THEN b
    ELSE CompileFunctions(CompileFunction(b, funcs[i]), funcs, i + 1)

\* build(), start: the clear() calls
ClearBuilder(b) ==
    [b EXCEPT !.functions = << >>, !.func_ids = EmptyMap,
              !.entry_func = NullOpt, !.struct_defs = EmptyMap]

\* build() that takes the first function as the entry point
SelectEntry_first(b, funcs) ==
    IF ~Ok(b) THEN b
    ELSE IF ~Contains(b.func_ids, "main")
    THEN Throw(b, "Missing entry point: define func main()")
    ELSE CompileFunctions([b EXCEPT !.entry_func = Some(0)], funcs, 1)

\* build(), between the passes: find main, set entry_func_, then pass 2
SelectEntry(b, funcs) ==
    IF ~Ok(b) THEN b
    ELSE IF ~Contains(b.func_ids, "main")
    THEN Throw(b, "Missing entry point: define func main()")
    ELSE CompileFunctions([b EXCEPT !.entry_func = Some(b.func_ids["main"])],
                          funcs, 1)

build(b, program) ==
    SelectEntry(
        RegisterFunctions(RegisterTopLevel(ClearBuilder(b), program, 1),
                          SelectSeq(program, IsFunctionStatement), 1),
        SelectSeq(program, IsFunctionStatement))

(***************************************************************************)
(* The inputs.                                                             *)
(***************************************************************************)
SourceInput(fam, prog) == [kind |-> "source", family |-> fam, program |-> prog]

BytecodeInput(fam, fns, entry) ==
    [kind |-> "bytecode", family |-> fam, functions |-> fns, entry |-> entry]

Lit(v) == IntegerExpression(v)
Var(n) == IdentifierExpression(n)
Main(sts) == FunctionStatement("main", << >>, sts)

Return0 == ReturnStatement(Lit(0))

\* test_locals_scoping_and_shadowing
ShadowingTest ==
    << Main(<< IntDeclarationAssignmentStatement("x", Lit(1)),
               ScopeStatement(<< IntDeclarationAssignmentStatement("x", Lit(2)),
                                 PrintStatement(Var("x")) >>),
               PrintStatement(Var("x")),
               Return0 >>) >>

\* test_function_call_and_args
FunctionCallTest ==
    << FunctionStatement("add", << "a", "b" >>,
          << ReturnStatement(BinaryExpression("Add", Var("a"), Var("b"))) >>),
       Main(<< PrintStatement(CallExpression(Var("add"), << Lit(7), Lit(5) >>)),
               Return0 >>) >>

\* programs of tests/test_bytecode_builder.cpp that the VM of vm.cpp can load
TestPrograms ==
    { ShadowingTest, FunctionCallTest,
      \* test_while_loop_runs
      << Main(<< IntDeclarationAssignmentStatement("x", Lit(0)),
                 WhileStatement(BinaryExpression("Lt", Var("x"), Lit(3)),
                    << PrintStatement(Var("x")),
                       IntAssignmentStatement("x", BinaryExpression("Add", Var("x"), Lit(1))) >>),
                 Return0 >>) >>,
      \* test_short_circuit_avoids_div0
      << Main(<< IfStatement(BinaryExpression("And", Lit(0),
                                BinaryExpression("Div", Lit(1), Lit(0))),
                    << PrintStatement(Lit(1)) >>, << PrintStatement(Lit(2)) >>),
                 IfStatement(BinaryExpression("Or", Lit(1),
                                BinaryExpression("Div", Lit(1), Lit(0))),
                    << PrintStatement(Lit(3)) >>, << >>),
                 Return0 >>) >>,
      \* test_entry_function_is_main_even_if_not_first
      << FunctionStatement("foo", << >>, << Return0 >>), Main(<< Return0 >>) >>,
      \* test_implicit_return_added
      << Main(<< IntDeclarationAssignmentStatement("x", Lit(1)) >>) >>,
      \* test_missing_main_throws
      << FunctionStatement("foo", << >>, << Return0 >>) >>,
      \* test_top_level_non_function_throws
      << IntDeclarationAssignmentStatement("x", Lit(1)) >>,
      \* test_undefined_variable_throws
      << Main(<< IntAssignmentStatement("x", Lit(1)), Return0 >>) >>,
      \* test_undefined_function_throws
      << Main(<< PrintStatement(CallExpression(Var("foo"), << Lit(1) >>)),
                 Return0 >>) >>,
      \* test_duplicate_function_throws
      << Main(<< Return0 >>), Main(<< Return0 >>) >> }

(***************************************************************************)
(* Control flow: every main whose body is one statement of nesting depth   *)
(* at most MaxNest, alone or followed by `return 2`.                       *)
(***************************************************************************)
FlowConds == { Lit(0), Lit(1) }

\* a condition that itself jumps: 1 && (0 || 2), and its negation
JumpingConds ==
    { BinaryExpression("And", Lit(1), BinaryExpression("Or", Lit(0), Lit(2))),
      BinaryExpression("Or", Lit(0), BinaryExpression("And", Lit(2), Lit(0))) }

SimpleStatements == { ReturnStatement(Lit(1)), PrintStatement(Lit(2)) }

\* the blocks of at most one statement of S
Blocks(S) == { << >> } \cup { << st >> : st \in S }

SimpleBlocks == Blocks(SimpleStatements)

RECURSIVE FlowStatements(_)
FlowStatements(n) ==
    IF n = 0 THEN SimpleStatements
    ELSE LET inner == Blocks(FlowStatements(n - 1)) IN
         SimpleStatements
         \cup { IfStatement(c, t, e) : c \in FlowConds, t \in inner, e \in SimpleBlocks }
         \cup { IfStatement(c, t, e) : c \in FlowConds, t \in SimpleBlocks, e \in inner }
         \cup { WhileStatement(c, d) : c \in FlowConds, d \in inner }
         \cup { ScopeStatement(d) : d \in inner }

FlowPrograms ==
    { << Main(<< st >>) >> : st \in FlowStatements(MaxNest) }
    \cup { << Main(<< st, ReturnStatement(Lit(2)) >>) >> :
              st \in FlowStatements(MaxNest) }
    \cup { << Main(<< WhileStatement(c, << IfStatement(c, t, e) >>), Return0 >>) >> :
              c \in JumpingConds, t \in SimpleBlocks, e \in SimpleBlocks }

(***************************************************************************)
(* Logic: main evaluates `a op b`, op one of && and ||, and prints it or   *)
(* branches on it; a and b range over LogicOperands.                       *)
(***************************************************************************)
Vals == { -1, 0, 1, 2 }

DivByZero == BinaryExpression("Div", Lit(1), Lit(0))

LogicOperands ==
    { Lit(v) : v \in Vals }
    \cup { DivByZero }
    \cup { BinaryExpression(o, Lit(v), Lit(w)) :
              o \in {"And", "Or"}, v \in {0, 2}, w \in {0, 2} }

LogicExpression(i) == BinaryExpression(i.op, i.a, i.b)

LogicProgram(i) ==
    IF i.shape = "print"
    THEN << Main(<< PrintStatement(LogicExpression(i)), Return0 >>) >>
    ELSE << Main(<< IfStatement(LogicExpression(i),
                       << PrintStatement(Lit(1)) >>, << PrintStatement(Lit(2)) >>),
                    Return0 >>) >>

LogicInputs ==
    { [kind |-> "source", family |-> "logic", program |-> LogicProgram(i),
       op |-> i.op, a |-> i.a, b |-> i.b, shape |-> i.shape] :
        i \in [op : {"And", "Or"}, a : LogicOperands, b : LogicOperands,
               shape : {"print", "if"}] }

(***************************************************************************)
(* Raw bytecode, as tests/test_vm.cpp loads it: function 0 is the entry,   *)
(* any code of at most MaxRawLen of RawOperations; function 1 takes two    *)
(* arguments; function 2 is empty.                                         *)
(***************************************************************************)
RawOperations ==
    { BytecodePushI64(0), BytecodePushI64(2), Bytecode("Div"), Bytecode("Pop"),
      Bytecode("Print"), Bytecode("Return"), BytecodeStoreLocal(1),
      BytecodeCallArgs(1, 2), BytecodeCallArgs(1, 1), BytecodeCall(2) }

RawCodes == UNION { [1..n -> RawOperations] : n \in 1..MaxRawLen }

TwoArgCallee ==
    FunctionBytecode(<< BytecodeLoadLocal(1), BytecodeLoadLocal(2), Bytecode("Pop"),
                        Bytecode("Return") >>, 3, 2)

EmptyCallee == FunctionBytecode(<< >>, 0, 0)

RawInputs ==
    { BytecodeInput("raw",
                    << FunctionBytecode(c, 1, 0), TwoArgCallee, EmptyCallee >>, 0) :
        c \in RawCodes }

(***************************************************************************)
(* Shadowing: `int x = outer; { int x = inner; x = assigned; print x; }    *)
(* print x; return 0;`                                                     *)
(***************************************************************************)
ShadowProgram(i) ==
    << Main(<< IntDeclarationAssignmentStatement("x", Lit(i.outer)),
               ScopeStatement(<< IntDeclarationAssignmentStatement("x", Lit(i.inner)),
                                 IntAssignmentStatement("x", Lit(i.assigned)),
                                 PrintStatement(Var("x")) >>),
               PrintStatement(Var("x")),
               Return0 >>) >>

ShadowInputs ==
    { [kind |-> "source", family |-> "shadow", program |-> ShadowProgram(i),
       outer |-> i.outer, inner |-> i.inner, assigned |-> i.assigned] :
        i \in [outer : Vals, inner : Vals, assigned : Vals] }

(***************************************************************************)
(* Calls: `func f(params) { return 1; } func main() { print f(args);       *)
(* return 0; }`, with zero to two parameters and zero to two arguments.    *)
(***************************************************************************)
ParamLists == { << >>, << "a" >>, << "a", "b" >> }

ArgLists == { << >>, << Lit(1) >>, << Lit(1), Lit(2) >> }

CallPrograms ==
    { << FunctionStatement("f", ps, << ReturnStatement(Lit(1)) >>),
         Main(<< PrintStatement(CallExpression(Var("f"), as)), Return0 >>) >> :
        ps \in ParamLists, as \in ArgLists }

(***************************************************************************)
(* Programs build() must reject, each with the one defect it is listed     *)
(* under.                                                                  *)
(***************************************************************************)
Foo(sts) == FunctionStatement("foo", << "a" >>, sts)

DefectivePrograms(defect) ==
    CASE defect = "missing main" ->
            { << >>,
              << Foo(<< Return0 >>) >>,
              << StructStatement("main", << "x" >>) >>,
              << Foo(<< Return0 >>), StructStatement("main", << "x" >>) >> }
      [] defect = "top-level statement" ->
            { << st, Main(<< Return0 >>) >> :
                 st \in { IntDeclarationAssignmentStatement("x", Lit(1)),
                          PrintStatement(Lit(1)), Return0 } }
            \cup { << Main(<< Return0 >>), IntDeclarationStatement("x") >>,
                   << Main(<< Return0 >>), ScopeStatement(<< >>) >> }
      [] defect = "undefined variable" ->
            { << Main(<< IntAssignmentStatement("x", Lit(1)), Return0 >>) >>,
              << Main(<< ReturnStatement(Var("x")) >>) >>,
              << Main(<< ScopeStatement(<< IntDeclarationStatement("x") >>),
                         PrintStatement(Var("x")), Return0 >>) >>,
              << Main(<< PrintStatement(Var("x")), IntDeclarationStatement("x"),
                         Return0 >>) >>,
              << Foo(<< Return0 >>), Main(<< ReturnStatement(Var("a")) >>) >>,
              << Main(<< WhileStatement(Var("main"), << >>), Return0 >>) >> }
      [] defect = "undefined function" ->
            { << Main(<< PrintStatement(CallExpression(Var("foo"), << Lit(1) >>)),
                         Return0 >>) >>,
              << Main(<< IntDeclarationAssignmentStatement("x", Lit(1)),
                         ReturnStatement(CallExpression(Var("x"), << >>)) >>) >>,
              << StructStatement("foo", << "x" >>),
                 Main(<< ReturnStatement(CallExpression(Var("foo"), << >>)) >>) >> }
      [] defect = "duplicate function" ->
            { << Main(<< Return0 >>), Main(<< Return0 >>) >>,
              << Foo(<< Return0 >>), Main(<< Return0 >>), Foo(<< Return0 >>) >>,
              << Foo(<< Return0 >>),
                 FunctionStatement("foo", << >>, << ReturnStatement(Lit(1)) >>),
                 Main(<< Return0 >>) >> }

Defects ==
    { "missing main", "top-level statement", "undefined variable",
      "undefined function", "duplicate function" }

DefectiveInputs ==
    UNION { { [kind |-> "source", family |-> "defective", program |-> p,
               defect |-> d] : p \in DefectivePrograms(d) } : d \in Defects }

(***************************************************************************)
(* Declaration order: f calls g, g calls itself, main calls f; the three   *)
(* functions in every order, with no struct or one struct at any place.    *)
(***************************************************************************)
OrderedFunctions ==
    { FunctionStatement("f", << "a" >>,
         << ReturnStatement(CallExpression(Var("g"), << Lit(1), Var("a") >>)) >>),
      FunctionStatement("g", << "a", "b" >>,
         << IfStatement(Var("a"),
               << ReturnStatement(CallExpression(Var("g"), << Lit(0), Lit(0) >>)) >>,
               << >>),
            ReturnStatement(Lit(7)) >>),
      Main(<< PrintStatement(CallExpression(Var("f"), << Lit(0) >>)), Return0 >>) }

\* the name of the one function each of them calls
Calls == [f |-> "g", g |-> "g", main |-> "f"]

Orders ==
    { o \in [1..3 -> OrderedFunctions] : \A i, j \in 1..3 : o[i] = o[j] => i = j }

InsertAt(seq, at, x) == SubSeq(seq, 1, at) \o << x >> \o SubSeq(seq, at + 1, Len(seq))

OrderPrograms ==
    Orders \cup { InsertAt(o, at, StructStatement("S", << "x" >>)) :
                     o \in Orders, at \in 0..3 }

(***************************************************************************)
(* Division: `push lhs; push rhs; div` and the same with mod, then return. *)
(***************************************************************************)
LeftOperands == { MinI64, MinI64 + 1, -7, -1, 0, 1, 7, MaxI64 }

RightOperands == { MinI64, -2, -1, 0, 1, 2, MaxI64 }

\* `push lhs; push rhs; add|sub|mult; return` and `push v; neg; return`
ArithmeticInputs ==
    { BytecodeInput("arithmetic",
         << FunctionBytecode(<< BytecodePushI64(lhs), BytecodePushI64(rhs),
                                Bytecode(op), Bytecode("Return") >>, 0, 0) >>, 0) :
        lhs \in LeftOperands, rhs \in RightOperands, op \in {"Add", "Sub", "Mult"} }
    \cup { BytecodeInput("arithmetic",
              << FunctionBytecode(<< BytecodePushI64(v), Bytecode("NEG"),
                                     Bytecode("Return") >>, 0, 0) >>, 0) :
             v \in LeftOperands }

DivisionInputs ==
    { BytecodeInput("division",
         << FunctionBytecode(<< BytecodePushI64(lhs), BytecodePushI64(rhs),
                                Bytecode(op), Bytecode("Return") >>, 0, 0) >>, 0) :
        lhs \in LeftOperands, rhs \in RightOperands, op \in {"Div", "Mod"} }

(***************************************************************************)
(* Locals: main stores 2 in its local and calls a function of one          *)
(* parameter and one or two locals, which pushes 7 and loads or stores     *)
(* slot 0, 1, 2 or 3.                                                      *)
(***************************************************************************)
SlotCallee(op, slot, num_locals) ==
    FunctionBytecode(<< BytecodePushI64(7), [op |-> op, slot |-> slot],
                        Bytecode("Return") >>, num_locals, 1)

SlotInputs ==
    { BytecodeInput("locals",
         << FunctionBytecode(<< BytecodePushI64(2), BytecodeStoreLocal(0),
                                BytecodePushI64(0), BytecodeCallArgs(1, 1),
                                Bytecode("Return") >>, 1, 0),
            SlotCallee(op, slot, n) >>, 0) :
        op \in {"LoadLocal", "StoreLocal"}, slot \in 0..3, n \in 1..2 }

(***************************************************************************)
(* Jumps: `push c; <jump> t; push 0; return` as the entry function or as a *)
(* function main calls, for the three jumps, c zero and nonzero, and t     *)
(* inside the code, at its end and past it.                                *)
(***************************************************************************)
JumpTargets == { 2, 4, 5, 9 }

JumpCodes ==
    { << BytecodePushI64(c), [op |-> j, target_ip |-> t],
         BytecodePushI64(0), Bytecode("Return") >> :
        c \in {0, 2}, j \in {"Jmp", "JmpFalse", "JmpTrue"}, t \in JumpTargets }

JumpInputs ==
    { BytecodeInput("jumps", << FunctionBytecode(code, 0, 0) >>, 0) :
        code \in JumpCodes }
    \cup { BytecodeInput("jumps",
              << FunctionBytecode(<< BytecodeCall(1), Bytecode("Return") >>, 0, 0),
                 FunctionBytecode(code, 0, 0) >>, 0) :
              code \in JumpCodes }

(***************************************************************************)
(* Strings: main prints one or two of "hello", "" and 1, then returns 0.   *)
(***************************************************************************)
Printing ==
    { PrintStringStatement("hello"), PrintStringStatement(""), PrintStatement(Lit(1)) }

PrintingPrograms ==
    { << Main(sts \o << Return0 >>) >> :
        sts \in UNION { [1..n -> Printing] : n \in 1..2 } }

(***************************************************************************)
(* Entry functions: any of three functions is the entry; the first stores  *)
(* and prints and returns, the second takes two parameters, the third has  *)
(* no instructions.                                                        *)
(***************************************************************************)
EntryInputs ==
    { BytecodeInput("entry",
         << FunctionBytecode(<< BytecodePushI64(2), BytecodeStoreLocal(1),
                                BytecodePushI64(7), Bytecode("Print"),
                                Bytecode("Return") >>, 2, 0),
            TwoArgCallee, EmptyCallee >>, entry) :
        entry \in 0..2 }

(***************************************************************************)
(* Programs with one struct type P of up to MaxFields fields and one       *)
(* statement with an initializer list of up to MaxInitializers expressions:*)
(* the declaration `P v = { ... };`, or the assignment `v = { ... };` to a *)
(* v that was declared with as many initializers as P has fields.          *)
(***************************************************************************)
MaxFields == 2

MaxInitializers == 3

StructFields(n) == SubSeq(<< "a", "b", "c", "d" >>, 1, n)

Initializers(k) == [i \in 1..k |-> Lit(i)]

StructForms == { "declaration", "assignment" }

StructBody(form, n, k) ==
    IF form = "declaration"
    THEN << StructDeclarationAssignmentStatement("P", "v", Initializers(k)),
            Return0 >>
    ELSE << StructDeclarationAssignmentStatement("P", "v", Initializers(n)),
            StructAssignmentStatement("v", Initializers(k)),
            Return0 >>

StructInput(form, n, k) ==
    [kind |-> "source", family |-> "structs", form |-> form, fields |-> n,
     count |-> k,
     program |-> << StructStatement("P", StructFields(n)),
                    Main(StructBody(form, n, k)) >>]

StructInputs ==
    { StructInput(form, n, k) :
        form \in StructForms, n \in 1..MaxFields, k \in 0..MaxInitializers }

(***************************************************************************)
(* Counting loops, with a marker printed by the statement after the loop.  *)
(*   up:   int x = first; while (x < last) { print x; x = x + 1; }         *)
(*   down: int x = first; while (x) { print x; x = x - 1; }                *)
(* A down loop from -1 runs on through the negative numbers, every one of  *)
(* them nonzero.                                                           *)
(***************************************************************************)
MaxCount == 3

Marker == MaxCount + 1

LoopForms == { "up", "down" }

LoopCond(form, last) ==
    IF form = "up" THEN BinaryExpression("Lt", Var("x"), Lit(last))
    ELSE Var("x")

LoopBody(form) ==
    << PrintStatement(Var("x")),
       IntAssignmentStatement("x",
          BinaryExpression(IF form = "up" THEN "Add" ELSE "Sub",
                           Var("x"), Lit(1))) >>

LoopInput(form, first, last) ==
    [kind |-> "source", family |-> "loops", form |-> form, first |-> first,
     last |-> last,
     program |-> << Main(<< IntDeclarationAssignmentStatement("x", Lit(first)),
                            WhileStatement(LoopCond(form, last), LoopBody(form)),
                            PrintStatement(Lit(Marker)),
                            Return0 >>) >>]

LoopInputs ==
    { LoopInput("up", first, last) : first \in 0..MaxCount, last \in 0..MaxCount }
    \cup { LoopInput("down", first, 0) : first \in (-1)..MaxCount }

(***************************************************************************)
(* Branches on a variable, with a marker printed by the statement after:   *)
(*   int x = cond; if (x) { then } else { else } print marker; return 0;   *)
(* The blocks print their own numbers; an if without else and an if with   *)
(* `else { }` are the same tree, with an empty else_scope.                 *)
(***************************************************************************)
BranchConds == { -1, 0, 1, 2 }

ThenBlocks == { << >>, << PrintStatement(Lit(1)) >> }

ElseBlocks ==
    { << >>, << PrintStatement(Lit(2)) >>,
      << PrintStatement(Lit(2)), PrintStatement(Lit(3)) >> }

BranchInput(c, t, e) ==
    [kind |-> "source", family |-> "branches", cond |-> c, then_scope |-> t,
     else_scope |-> e,
     program |-> << Main(<< IntDeclarationAssignmentStatement("x", Lit(c)),
                            IfStatement(Var("x"), t, e),
                            PrintStatement(Lit(Marker)),
                            Return0 >>) >>]

BranchInputs ==
    { BranchInput(c, t, e) : c \in BranchConds, t \in ThenBlocks, e \in ElseBlocks }

(***************************************************************************)
(* Scopes: `struct P { int a; int b; } func f(params) { body } func main() *)
(* { return 0; }`, the body a list of at most MaxItems statements, each a  *)
(* declaration `int v = k;`, a declaration `P v = {1, 2};` or a block of   *)
(* up to MaxItems - 1 int declarations.  Declarations of one list have     *)
(* different names; a block uses the names of its enclosing list again.    *)
(***************************************************************************)
MaxItems == 3

LocalName(k) == << "v1", "v2", "v3", "v4", "v5" >>[k]

IntItem(k) == IntDeclarationAssignmentStatement(LocalName(k), Lit(k))

StructItem(k) ==
    StructDeclarationAssignmentStatement("P", LocalName(k), << Lit(1), Lit(2) >>)

InnerBlock(n) == ScopeStatement([k \in 1..n |-> IntItem(k)])

ItemsAt(k) ==
    { IntItem(k), StructItem(k) } \cup { InnerBlock(n) : n \in 0..(MaxItems - 1) }

AllItems == UNION { ItemsAt(k) : k \in 1..MaxItems }

ScopeBodies ==
    UNION { { body \in [1..n -> AllItems] : \A k \in 1..n : body[k] \in ItemsAt(k) } :
              n \in 0..MaxItems }

ScopeInput(params, body) ==
    [kind |-> "source", family |-> "scopes", params |-> params, body |-> body,
     program |-> << StructStatement("P", << "a", "b" >>),
                    FunctionStatement("f", params, body),
                    Main(<< Return0 >>) >>]

ScopeInputs ==
    { ScopeInput(params, body) : params \in { << >>, << "a" >> }, body \in ScopeBodies }

(***************************************************************************)
(* Two declarations: `struct P { int a; int b; } func f(...) { first       *)
(* second } func main() { return 0; }`.  The first binds x, as the         *)
(* parameter of f or as a local; the second declares x again or declares   *)
(* y, in the body itself or in a block, an if or a while of the body.      *)
(***************************************************************************)
DeclarationForms == { "int =", "int", "struct" }

Declaration(form, name) ==
    CASE form = "int =" -> IntDeclarationAssignmentStatement(name, Lit(1))
      [] form = "int" -> IntDeclarationStatement(name)
      [] form = "struct" ->
            StructDeclarationAssignmentStatement("P", name, << Lit(1), Lit(2) >>)

Places == { "same", "block", "if", "while" }

Placed(place, st) ==
    CASE place = "same" -> st
      [] place = "block" -> ScopeStatement(<< st >>)
      [] place = "if" -> IfStatement(Lit(1), << st >>, << >>)
      [] place = "while" -> WhileStatement(Lit(0), << st >>)

RedeclareInput(first, second, name, place) ==
    [kind |-> "source", family |-> "redeclare", first |-> first,
     second |-> second, name |-> name, place |-> place,
     program |->
        << StructStatement("P", << "a", "b" >>),
           FunctionStatement("f",
              IF first = "parameter" THEN << "x" >> ELSE << >>,
              (IF first = "parameter" THEN << >>
               ELSE << Declaration(first, "x") >>)
              \o << Placed(place, Declaration(second, name)) >>),
           Main(<< Return0 >>) >>]

RedeclareInputs ==
    { RedeclareInput(first, second, name, place) :
        first \in DeclarationForms \cup { "parameter" },
        second \in DeclarationForms, name \in { "x", "y" }, place \in Places }

(***************************************************************************)
(* Recursion, with every call in the middle of an expression:              *)
(*   func f(n) { int m = n; if (n) { m = m + f(n - 1); } return m; }       *)
(*   func main() { int r = start; r = r + f(depth); print r; return 0; }   *)
(***************************************************************************)
RecursiveFunction ==
    FunctionStatement("f", << "n" >>,
       << IntDeclarationAssignmentStatement("m", Var("n")),
          IfStatement(Var("n"),
             << IntAssignmentStatement("m",
                   BinaryExpression("Add", Var("m"),
                      CallExpression(Var("f"),
                         << BinaryExpression("Sub", Var("n"), Lit(1)) >>))) >>,
             << >>),
          ReturnStatement(Var("m")) >>)

RecursionInput(start, depth) ==
    [kind |-> "source", family |-> "recursion", start |-> start, depth |-> depth,
     program |->
        << RecursiveFunction,
           Main(<< IntDeclarationAssignmentStatement("r", Lit(start)),
                   IntAssignmentStatement("r",
                      BinaryExpression("Add", Var("r"),
                         CallExpression(Var("f"), << Lit(depth) >>))),
                   PrintStatement(Var("r")),
                   Return0 >>) >>]

(***************************************************************************)
(* A declaration that names itself: `int x = x + add;` alone in main, in a *)
(* block under `int x = outer;`, and in a block after the block            *)
(* `{ int y = outer; }` whose slot it takes.                               *)
(***************************************************************************)
SelfDeclaration(add) ==
    IntDeclarationAssignmentStatement("x", BinaryExpression("Add", Var("x"), Lit(add)))

SelfBlock(add) == ScopeStatement(<< SelfDeclaration(add), PrintStatement(Var("x")) >>)

SelfBody(shape, outer, add) ==
    CASE shape = "alone" ->
            << SelfDeclaration(add), PrintStatement(Var("x")), Return0 >>
      [] shape = "under" ->
            << IntDeclarationAssignmentStatement("x", Lit(outer)), SelfBlock(add),
               PrintStatement(Var("x")), Return0 >>
      [] shape = "after" ->
            << ScopeStatement(<< IntDeclarationAssignmentStatement("y", Lit(outer)) >>),
               SelfBlock(add), Return0 >>

SelfInputs ==
    { [kind |-> "source", family |-> "self", shape |-> shape, outer |-> outer,
       add |-> add, program |-> << Main(SelfBody(shape, outer, add)) >>] :
        shape \in {"alone", "under", "after"}, outer \in {2, 5}, add \in {0, 1} }

RecursionInputs ==
    { RecursionInput(start, depth) : start \in { 0, 5 }, depth \in 0..MaxFrames }

Inputs ==
    { SourceInput("test", p) : p \in TestPrograms }
    \cup RecursionInputs
    \cup SelfInputs
    \cup RedeclareInputs
    \cup ScopeInputs
    \cup BranchInputs
    \cup LoopInputs
    \cup StructInputs
    \cup { SourceInput("flow", p) : p \in FlowPrograms }
    \cup { SourceInput("call", p) : p \in CallPrograms }
    \cup { SourceInput("order", p) : p \in OrderPrograms }
    \cup { SourceInput("strings", p) : p \in PrintingPrograms }
    \cup LogicInputs
    \cup ShadowInputs
    \cup RawInputs
    \cup DefectiveInputs
    \cup DivisionInputs
    \cup ArithmeticInputs
    \cup SlotInputs
    \cup JumpInputs
    \cup EntryInputs

(***************************************************************************)
(* The session.                                                            *)
(***************************************************************************)
\* the VM's fields as a record
VM ==
    [functions |-> vm_functions, entry_func |-> vm_entry_func, stack |-> stack,
     print_buffer |-> print_buffer, call_stack |-> call_stack,
     is_active |-> is_active, return_value |-> return_value, thrown |-> "none",
     signal |-> "none"]

\* the VM after a call that left it as m
SetVM(m, call) ==
    /\ vm_functions' = m.functions
    /\ vm_entry_func' = m.entry_func
    /\ stack' = m.stack
    /\ print_buffer' = m.print_buffer
    /\ call_stack' = m.call_stack
    /\ is_active' = m.is_active
    /\ return_value' = m.return_value
    /\ thrown' = m.thrown
    /\ last_call' = call

\* what the driver loads into the VM, and the entry function it selects
Loadable == IF input.kind = "source" THEN functions ELSE input.functions

LoadEntry == IF input.kind = "source" THEN ValueOf(entry_func) ELSE input.entry

WithinBounds ==
    /\ Len(stack) <= MaxStack
    /\ Len(print_buffer) <= MaxPrint
    /\ Len(call_stack) <= MaxFrames

Init ==
    /\ input \in Inputs
    /\ functions = << >>
    /\ entry_func = NullOpt
    /\ vm_functions = << >>
    /\ vm_entry_func = NullOpt
    /\ stack = << >>
    /\ print_buffer = << >>
    /\ call_stack = << >>
    /\ is_active = TRUE
    /\ return_value = NullOpt
    /\ last_call = "none"
    /\ thrown = "none"
    /\ tokens = << >>
    /\ returned = NullOpt
    /\ pc = IF input.kind = "source" THEN "build" ELSE "load"

\* BytecodeBuilder b; b.build(program);
Build ==
    /\ pc = "build"
    /\ \E u \in UnreachableOutcomes :
        LET b == build(BuilderWhere(u), input.program) IN
        /\ functions' = b.functions
        /\ entry_func' = b.entry_func
        /\ thrown' = IF b.signal = "none" THEN b.thrown ELSE "none"
        /\ pc' = IF b.signal # "none" THEN "killed"
                 ELSE IF Ok(b) THEN "load" ELSE "failed"
    /\ last_call' = "build"
    /\ UNCHANGED << input, vm_vars, front_vars >>

\* (void)vm.add_function(fn), for the next function to load
AddFunction ==
    /\ pc = "load"
    /\ Len(vm_functions) < Len(Loadable)
    /\ SetVM(add_function(VM, Loadable[Len(vm_functions) + 1]), "add_function")
    /\ UNCHANGED << input, builder_vars, pc, front_vars >>

\* vm.set_entry_function(entry), once every function is loaded
SetEntryFunction ==
    /\ pc = "load"
    /\ Len(vm_functions) = Len(Loadable)
    /\ SetVM(set_entry_function(VM, LoadEntry), "set_entry_function")
    /\ pc' = "run"
    /\ UNCHANGED << input, builder_vars, front_vars >>

\* The tests call reset() and step() at any moment; the generated programs
\* are loaded first and driven afterwards.
Driven == pc # "killed" /\ (pc = "run" \/ input.family = "test")

\* vm.reset()
Reset ==
    /\ Driven
    /\ SetVM(reset(VM), "reset")
    /\ UNCHANGED << input, builder_vars, pc, front_vars >>

\* vm.step(); vm.run() is this action repeated while is_active()
Step ==
    /\ Driven
    /\ WithinBounds
    /\ \E m \in step_outcomes(VM) :
          /\ SetVM(m, "step")
          /\ pc' = IF m.signal = "none" THEN pc ELSE "killed"
    /\ UNCHANGED << input, builder_vars, front_vars >>

Next == Build \/ AddFunction \/ SetEntryFunction \/ Reset \/ Step

Spec == Init /\ [][Next]_vars

(***************************************************************************)
(* What step() is about to do.                                             *)
(***************************************************************************)
\* the frame step() runs: call_stack_.back()
CurrentFrame == call_stack[Len(call_stack)]

\* the function of that frame
CurrentFunction == vm_functions[CurrentFrame.func_id + 1]

\* step() passes its three tests and fetches an instruction
Fetches ==
    /\ is_active
    /\ call_stack # << >>
    /\ CurrentFrame.ip < Len(CurrentFunction.code)

\* the instruction it fetches: f.code[fr.ip]
CurrentOp == CurrentFunction.code[CurrentFrame.ip + 1]

\* this transition is a call of step()
StepCalled == last_call' = "step"

\* step() was the last call, it returned normally, and the VM has halted
Halted ==
    /\ pc = "run"
    /\ last_call = "step"
    /\ thrown = "none"
    /\ ~is_active
    /\ call_stack = << >>

(***************************************************************************)
(* Return from the entry frame.                                            *)
(***************************************************************************)
EntryReturn ==
    (StepCalled /\ Fetches /\ CurrentOp.op = "Return" /\ Len(call_stack) = 1
        /\ stack # << >>)
    => /\ thrown' = "none"
       /\ ~is_active'
       /\ call_stack' = << >>
       /\ stack' = SubSeq(stack, 1, Len(stack) - 1)
       /\ return_value' = Some(stack[Len(stack)])

IsPushZeroReturn ==
    /\ input.family = "raw"
    /\ input.functions[1].code = << BytecodePushI64(0), Bytecode("Return") >>

PushZeroReturn ==
    (IsPushZeroReturn /\ last_call = "step" /\ thrown = "none")
    => \/ is_active /\ stack = << 0 >> /\ CurrentOp.op = "Return"
       \/ ~is_active /\ stack = << >> /\ return_value = Some(0)
            /\ call_stack = << >>

\* C1: RETURN in the entry frame with v on top halts the VM: is_active is
\* false, the call stack is empty, v is off the stack and is the return
\* value; `push 0; return` halts with return value 0 and an empty stack.
C1_EntryReturnHalts == [][EntryReturn]_vars /\ []PushZeroReturn

\* `push 0; push 2; return` has halted: 2 is returned, 0 stays on the stack
C1_Witness == Halted /\ return_value = Some(2) /\ stack = << 0 >>

(***************************************************************************)
(* step() on a halted VM.                                                  *)
(***************************************************************************)
InactiveStep ==
    (StepCalled /\ ~is_active)
    => /\ thrown' = "VM: step() called while inactive"
       /\ stack' = stack
       /\ print_buffer' = print_buffer
       /\ call_stack' = call_stack
       /\ ~is_active'

\* C2: once the VM is halted, every step() fails with an error and changes
\* neither the stack, the print buffer nor the call-frame stack; only
\* reset() makes the VM active again.
C2_HaltedStepFails ==
    [][InactiveStep /\ ((~is_active /\ is_active') => last_call' = "reset")]_vars

\* step() has failed on a VM that halted with output and a return value
C2_Witness ==
    /\ last_call = "step"
    /\ thrown = "VM: step() called while inactive"
    /\ call_stack = << >>
    /\ return_value # NullOpt
    /\ print_buffer # << >>

(***************************************************************************)
(* The VM after a runtime error.                                           *)
(***************************************************************************)
\* C3, as the specification states it: when step() raises a runtime error
\* the VM is inactive afterwards, and the stack and the print buffer are as
\* they were before the failing instruction.
C3_ErrorLeavesStateIntact ==
    [][(StepCalled /\ is_active /\ call_stack # << >> /\ thrown' # "none")
        => /\ ~is_active'
           /\ stack' = stack
           /\ print_buffer' = print_buffer]_vars

\* `push 2; push 0; div` has thrown: the VM is still active and both
\* operands are gone
C3_Witness ==
    /\ last_call = "step"
    /\ thrown = "VM: division by zero"
    /\ is_active
    /\ stack = << >>
    /\ input.family = "raw"

(***************************************************************************)
(* Functions end in RETURN.                                                *)
(***************************************************************************)
FellOffEnd == thrown = "VM: fell off end of function without return"

\* C4, as the specification states it: a function compiled by build() never
\* falls off its end, whatever values its conditions take.
C4_CompiledFunctionsReturn == input.kind = "source" => ~FellOffEnd

\* main is `if (0) { return 1; }` and the VM fell off its end
C4_Witness ==
    /\ FellOffEnd
    /\ input.family = "flow"
    /\ input.program =
          << Main(<< IfStatement(Lit(0), << ReturnStatement(Lit(1)) >>, << >>) >>) >>

(***************************************************************************)
(* && and ||, on the programs of LogicInputs: main starts with the code of *)
(* `a op b`, which is a's code, one jump, b's code and the rest.           *)
(***************************************************************************)
\* the builder as build() has it when it compiles main's first statement
AtMainBody ==
    begin_function_locals(
        ClearFunction(SetActive(RegisterFunctions(NewBuilder, << Main(<< >>) >>, 1),
                                Main(<< >>)),
                      Main(<< >>)),
        << >>)

\* how many instructions e compiles to
CodeLength(e) == ip(build_expression(AtMainBody, e))

\* the value of an operand, and whether it has one
Denotes(e) ==
    CASE e.kind = "IntegerExpression" -> e.value
      [] e.kind = "BinaryExpression" /\ e.op = "And" ->
            Bool(e.lhs.value # 0 /\ e.rhs.value # 0)
      [] e.kind = "BinaryExpression" /\ e.op = "Or" ->
            Bool(e.lhs.value # 0 \/ e.rhs.value # 0)
      [] OTHER -> 0

Defined(e) == e # DivByZero

\* a decides the result alone
Decided ==
    /\ input.family = "logic"
    /\ Defined(input.a)
    /\ \/ input.op = "And" /\ Denotes(input.a) = 0
       \/ input.op = "Or" /\ Denotes(input.a) # 0

\* the instructions of b
RightOperand ==
    (CodeLength(input.a) + 1) .. (CodeLength(input.a) + CodeLength(input.b))

\* what `a op b` is worth
Expected ==
    IF input.op = "And"
    THEN Bool(Denotes(input.a) # 0 /\ Denotes(input.b) # 0)
    ELSE Bool(Denotes(input.a) # 0 \/ Denotes(input.b) # 0)

\* main is about to execute the instruction that follows `a op b`
AfterExpression ==
    /\ pc = "run"
    /\ last_call = "step"
    /\ thrown = "none"
    /\ is_active
    /\ Len(call_stack) = 1
    /\ CurrentFrame.ip = CodeLength(LogicExpression(input))

\* C5: when a is 0 in `a && b`, or nonzero in `a || b`, no instruction of b
\* is executed, so a division by zero in b is not raised.
C5_ShortCircuitSkipsRight ==
    /\ [][(StepCalled /\ Decided /\ Fetches) => CurrentFrame.ip \notin RightOperand]_vars
    /\ [](Decided => thrown # "VM: division by zero")

\* `if (2 || 1/0) { print 1; } else { print 2; }` has run to its end
C5_Witness ==
    /\ Halted
    /\ Decided
    /\ input.op = "Or"
    /\ input.b = DivByZero
    /\ input.shape = "if"
    /\ print_buffer = << 1 >>

\* C6: `a && b` leaves exactly one value on the stack, 1 if both operands
\* are nonzero and 0 otherwise; `a || b` leaves 1 if either is nonzero and 0
\* otherwise.
C6_LogicLeavesZeroOrOne ==
    (input.family = "logic" /\ Defined(input.a) /\ (Decided \/ Defined(input.b))
        /\ AfterExpression)
    => stack = << Expected >>

\* `2 && -1` has left 1
C6_Witness ==
    /\ input.family = "logic"
    /\ input.op = "And"
    /\ input.a = Lit(2)
    /\ input.b = Lit(-1)
    /\ AfterExpression
    /\ stack = << 1 >>

(***************************************************************************)
(* Shadowing, on the programs of ShadowInputs.                             *)
(***************************************************************************)
\* the slot a StoreLocal or LoadLocal of main names
SlotAt(i) == functions[1].code[i].slot

\* the inner x has a slot of its own, which the block's assignment and
\* print use; the print after the block reads the outer x's slot
OwnSlot ==
    (input.family = "shadow" /\ pc \in {"load", "run"})
    => /\ SlotAt(4) # SlotAt(2)
       /\ SlotAt(6) = SlotAt(4)
       /\ functions[1].code[7] = BytecodeLoadLocal(SlotAt(4))
       /\ functions[1].code[10] = BytecodeLoadLocal(SlotAt(2))

\* once stored, the outer x keeps its value
OuterKept ==
    (input.family = "shadow" /\ pc = "run" /\ last_call = "step" /\ Fetches
        /\ CurrentFrame.ip >= 2)
    => CurrentFrame.locals[SlotAt(2) + 1] = input.outer

\* C7: a variable declared in an inner scope under the name of an outer one
\* gets its own slot; inside the scope the name denotes the inner variable,
\* after it the outer one, whose value is unchanged.
C7_ShadowingKeepsOuter ==
    /\ OwnSlot
    /\ OuterKept
    /\ (input.family = "shadow" /\ Halted)
          => print_buffer = << input.assigned, input.outer >>
    /\ (input.family = "test" /\ input.program = ShadowingTest /\ Halted)
          => print_buffer = << 2, 1 >>

\* `int x = 1; { int x = 0; x = 2; print x; } print x;` has printed 2, 1
C7_Witness ==
    /\ Halted
    /\ input.family = "shadow"
    /\ input.inner = 0
    /\ print_buffer = << 2, 1 >>

(***************************************************************************)
(* Calls.                                                                  *)
(***************************************************************************)
IsCall(o) == o.op \in {"Call", "CallArgs"}

\* the argument count of a call instruction: CALL passes none
Argc(o) == IF o.op = "Call" THEN 0 ELSE o.argc

\* step() fetches a call of a function the VM holds
FetchesCall ==
    /\ Fetches
    /\ IsCall(CurrentOp)
    /\ CurrentOp.func_id < Len(vm_functions)

Callee == vm_functions[CurrentOp.func_id + 1]

\* the caller's frames once step() has advanced the instruction pointer
Advanced == [call_stack EXCEPT ![Len(call_stack)].ip = @ + 1]

\* the locals of a frame called with the top n values of the stack
BoundLocals(n) ==
    [i \in 1..Callee.num_locals |->
        IF i <= n THEN stack[Len(stack) - n + i] ELSE 0]

CallPushesFrame ==
    (StepCalled /\ FetchesCall /\ Argc(CurrentOp) = Callee.num_params
        /\ Callee.num_locals >= Callee.num_params
        /\ Len(stack) >= Argc(CurrentOp) /\ Callee.code # << >>)
    => /\ thrown' = "none"
       /\ call_stack' =
             Append(Advanced,
                    Frame(CurrentOp.func_id, 0, BoundLocals(Argc(CurrentOp))))
       /\ stack' = SubSeq(stack, 1, Len(stack) - Argc(CurrentOp))

\* C8: a call with n arguments pushed a1..an pushes a frame whose slot i-1
\* holds ai, whose other locals are 0 and whose ip is 0, and removes exactly
\* the n arguments from the stack; `print add(7, 5)` prints 12.
C8_CallBindsArguments ==
    /\ [][CallPushesFrame]_vars
    /\ []((input.family = "test" /\ input.program = FunctionCallTest /\ Halted)
            => print_buffer = << 12 >>)

\* `push 0; push 2; call 1, 2` has entered function 1
C8_Witness ==
    /\ last_call = "step"
    /\ thrown = "none"
    /\ Len(call_stack) = 2
    /\ CurrentFrame = Frame(1, 0, << 0, 2, 0 >>)
    /\ stack = << >>

ArityMismatch ==
    (StepCalled /\ FetchesCall /\ Argc(CurrentOp) # Callee.num_params)
    => /\ thrown' = "VM call: argc does not match callee.num_params"
       /\ call_stack' = Advanced
       /\ stack' = stack

\* C9: a call whose argument count differs from the callee's parameter
\* count (the no-argument call form counts as zero) raises a runtime error
\* at the call; no frame is pushed and no operand is popped.
C9_ArityMismatchRaises == [][ArityMismatch]_vars

\* `f(1, 2)` of a function without parameters has thrown; 1 and 2 stay
C9_Witness ==
    /\ last_call = "step"
    /\ thrown = "VM call: argc does not match callee.num_params"
    /\ input.family = "call"
    /\ stack = << 1, 2 >>
    /\ Len(call_stack) = 1

(***************************************************************************)
(* Jump targets.                                                           *)
(***************************************************************************)
\* the jumps of function f of the builder
Jumps(f) == { i \in 1..Len(f.code) : IsJump(f.code[i]) }

Built == input.kind = "source" /\ pc \in {"load", "run"}

\* C10: after build() succeeds, no Jmp, JmpFalse or JmpTrue of any function
\* has the unpatched sentinel as its target.
C10_JumpsPatched ==
    Built => \A k \in 1..Len(functions) :
                \A i \in Jumps(functions[k]) :
                    functions[k].code[i].target_ip # INVALIDIPtr

\* a built main holds all three kinds of jump, one inside a loop
C10_Witness ==
    /\ Built
    /\ input.family = "flow"
    /\ \E i \in Jumps(functions[1]) : functions[1].code[i].op = "JmpTrue"
    /\ \E i \in Jumps(functions[1]) : functions[1].code[i].op = "JmpFalse"
    /\ \E i \in Jumps(functions[1]) :
          /\ functions[1].code[i].op = "Jmp"
          /\ functions[1].code[i].target_ip < i

(***************************************************************************)
(* C11: build() fails with a compile error for a program without a         *)
(* function named main, for a top-level statement that is neither a        *)
(* function nor a struct, for a reference to an undefined variable, for a  *)
(* call to an undefined function, and for two top-level functions of one   *)
(* name.                                                                   *)
(***************************************************************************)
\* build() was called on a program with one of the five defects
BuiltDefective == input.family = "defective" /\ last_call = "build"

\* build() threw: the driver never loads the VM
BuildFailed == pc = "failed" /\ thrown # "none"

C11_DefectiveProgramsFail == BuiltDefective => BuildFailed

C11_Witness ==
    /\ BuiltDefective
    /\ BuildFailed
    /\ input.defect = "undefined function"
    /\ Len(input.program) = 2

(***************************************************************************)
(* C12: build() numbers the top-level functions 0, 1, 2, ... in the order  *)
(* of their declarations, a struct declaration takes no number,            *)
(* entry_function() is the number of main wherever main stands, and a call *)
(* of a function declared after its caller, or of the caller itself,       *)
(* carries the callee's number.                                            *)
(***************************************************************************)
\* the top-level functions of the program, in the order of the source
Declared == SelectSeq(input.program, IsFunctionStatement)

\* how many functions are declared before the function called name
DeclaredBefore(name) ==
    Cardinality({ k \in 1..Len(Declared) :
                    \E j \in (k + 1)..Len(Declared) : Declared[j].func_name = name })

\* functions()[id] was compiled from the id-th declaration
InDeclarationOrder ==
    /\ Len(functions) = Len(Declared)
    /\ \A k \in 1..Len(Declared) :
          functions[k].num_params = Len(Declared[k].vars)

\* every call in the code of the k-th function carries its callee's number
CallsResolved ==
    \A k \in 1..Len(Declared) :
       \A i \in 1..Len(functions[k].code) :
          IsCall(functions[k].code[i]) =>
             functions[k].code[i].func_id
                = DeclaredBefore(Calls[Declared[k].func_name])

C12_IdsInDeclarationOrder ==
    input.family = "order" /\ Built =>
        /\ InDeclarationOrder
        /\ entry_func = Some(DeclaredBefore("main"))
        /\ CallsResolved

\* a struct first, then f before the g it calls, main last
C12_Witness ==
    /\ input.family = "order" /\ Built
    /\ input.program[1].kind = "StructStatement"
    /\ input.program[2].func_name = "f"
    /\ entry_func = Some(2)
    /\ functions[1].code[3] = BytecodeCallArgs(1, 2)

(***************************************************************************)
(* C13: DIV and MOD with a zero right operand raise a runtime error and    *)
(* push no result, whatever the left operand is; with a nonzero right      *)
(* operand they raise no error.                                            *)
(***************************************************************************)
\* step() fetches DIV or MOD and the stack holds both operands
FetchesDivision ==
    /\ Fetches
    /\ CurrentOp.op \in {"Div", "Mod"}
    /\ Len(stack) >= 2

DivisionError ==
    IF CurrentOp.op = "Div" THEN "VM: division by zero" ELSE "VM: modulo by zero"

\* the operands are gone and nothing has taken their place
NoResultPushed == stack' = SubSeq(stack, 1, Len(stack) - 2)

ZeroTested ==
    StepCalled /\ FetchesDivision =>
        IF stack[Len(stack)] = 0
        THEN thrown' = DivisionError /\ NoResultPushed
        ELSE thrown' = "none"

C13_DivisionByZeroRaises == [][ZeroTested]_vars

\* INT64_MIN % 0 has thrown
C13_Witness ==
    /\ input.family = "division"
    /\ thrown = "VM: modulo by zero"
    /\ vm_functions[1].code[1] = BytecodePushI64(MinI64)
    /\ stack = << >>

(***************************************************************************)
(* C14: LOAD_LOCAL and STORE_LOCAL whose slot is not below the number of   *)
(* locals of the current frame raise a runtime error; the failing          *)
(* instruction changes no local of any frame, and a failing STORE_LOCAL    *)
(* does not pop the operand stack.                                         *)
(***************************************************************************)
\* step() fetches a load or a store whose slot the current frame lacks
FetchesBadSlot ==
    /\ Fetches
    /\ CurrentOp.op \in {"LoadLocal", "StoreLocal"}
    /\ CurrentOp.slot >= Len(CurrentFrame.locals)

SlotError ==
    IF CurrentOp.op = "LoadLocal"
    THEN "VM: LOAD_LOCAL out of range" ELSE "VM: STORE_LOCAL out of range"

LocalsUnchanged ==
    /\ Len(call_stack') = Len(call_stack)
    /\ \A k \in 1..Len(call_stack) : call_stack'[k].locals = call_stack[k].locals

BadSlotRaises ==
    StepCalled /\ FetchesBadSlot =>
        /\ thrown' = SlotError
        /\ LocalsUnchanged
        /\ stack' = stack

C14_BadSlotRaises == [][BadSlotRaises]_vars

\* the callee's `store_local 2` has thrown with two locals in its frame:
\* the 7 is still on the stack and main's local still holds 2
C14_Witness ==
    /\ input.family = "locals"
    /\ thrown = "VM: STORE_LOCAL out of range"
    /\ Len(call_stack) = 2
    /\ call_stack[1].locals = << 2 >>
    /\ call_stack[2].locals = << 0, 0 >>
    /\ stack = << 7 >>

(***************************************************************************)
(* C15: when step() is called with the instruction pointer of the current  *)
(* frame at or past the end of its function's code, whether the frame ran  *)
(* past the last instruction or jumped to a target outside the code,       *)
(* step() raises a runtime error; it executes no instruction and does not  *)
(* halt the VM.                                                            *)
(***************************************************************************)
\* step() finds the current frame out of code
OutOfCode ==
    /\ is_active
    /\ call_stack # << >>
    /\ CurrentFrame.ip >= Len(CurrentFunction.code)

OutOfCodeRaises ==
    StepCalled /\ OutOfCode =>
        /\ thrown' = "VM: fell off end of function without return"
        /\ UNCHANGED << stack, print_buffer, call_stack, is_active, return_value >>

C15_OutOfCodeRaises == [][OutOfCodeRaises]_vars

\* a called function jumped out of its four instructions, and step() threw
C15_Witness ==
    /\ input.family = "jumps"
    /\ thrown = "VM: fell off end of function without return"
    /\ Len(call_stack) = 2
    /\ CurrentFrame.ip = 9
    /\ Len(CurrentFunction.code) = 4
    /\ is_active

(***************************************************************************)
(* C16: PRINT appends the value on top of the stack to the print buffer    *)
(* and leaves the stack as it is; PRINT on an empty stack is a runtime     *)
(* error.  Between two calls of reset() the print buffer only grows at its *)
(* end: it holds the printed values in the order of execution, and an      *)
(* entry never changes.                                                    *)
(***************************************************************************)
FetchesPrint == Fetches /\ CurrentOp.op = "Print"

PrintAppends ==
    StepCalled /\ FetchesPrint =>
        /\ stack' = stack
        /\ IF stack = << >>
           THEN /\ thrown' = "VM: PRINT requires a value on stack"
                /\ print_buffer' = print_buffer
           ELSE /\ thrown' = "none"
                /\ print_buffer' = Append(print_buffer, stack[Len(stack)])

\* whatever is called, except reset(): the old buffer is the start of the new
BufferGrows ==
    last_call' # "reset" =>
        /\ Len(print_buffer') >= Len(print_buffer)
        /\ SubSeq(print_buffer', 1, Len(print_buffer)) = print_buffer

\* the buffer changes only when PRINT or PRINT_STRING runs
OnlyPrintWrites ==
    last_call' # "reset" /\ print_buffer' # print_buffer =>
        StepCalled /\ Fetches /\ CurrentOp.op \in {"Print", "PrintString"}

PrintStringAppends ==
    StepCalled /\ Fetches /\ CurrentOp.op = "PrintString" =>
        /\ thrown' = "none"
        /\ stack' = stack
        /\ print_buffer' = Append(print_buffer, CurrentOp.content)

IsPrintString(o) == o.op = "PrintString"

IsPrintStringStatement(st) == st.kind = "PrintStringStatement"

\* the statements of main but its last, the return
Prints == SubSeq(input.program[1].statements, 1, Len(input.program[1].statements) - 1)

\* main's code has one PRINT_STRING for each print of a string, in the
\* order of the source and with its literal
OnePerStatement ==
    LET emitted == SelectSeq(functions[1].code, IsPrintString)
        printed == SelectSeq(Prints, IsPrintStringStatement)
    IN /\ Len(emitted) = Len(printed)
       /\ \A i \in 1..Len(printed) : emitted[i].content = printed[i].content

\* what main prints, in the order of the source
Printed ==
    [i \in 1..Len(Prints) |->
        IF IsPrintStringStatement(Prints[i])
        THEN Prints[i].content ELSE Prints[i].expr.value]

CompiledPrintString ==
    input.family = "strings" /\ Built =>
        /\ OnePerStatement
        /\ Halted => print_buffer = Printed

ResetCalled == last_call' = "reset" /\ vm_entry_func # NullOpt

EntryFunction == vm_functions[ValueOf(vm_entry_func) + 1]

\* the call stack is one fresh frame of the entry function
OneEntryFrame ==
    /\ Len(call_stack') = 1
    /\ call_stack'[1].func_id = ValueOf(vm_entry_func)
    /\ call_stack'[1].ip = 0
    /\ Len(call_stack'[1].locals) = EntryFunction.num_locals
    /\ \A i \in 1..Len(call_stack'[1].locals) : call_stack'[1].locals[i] = 0

ResetStartsOver ==
    ResetCalled =>
        /\ thrown' = "none"
        /\ stack' = << >>
        /\ OneEntryFrame
        /\ is_active' = (EntryFunction.code # << >>)

C18_ResetStartsOver == [][ResetStartsOver]_vars

\* reset() after a run that stored 2 in local 1 and halted with 7
C18_Witness ==
    /\ input.family = "entry"
    /\ last_call = "reset"
    /\ return_value = Some(7)
    /\ stack = << >>
    /\ call_stack = << Frame(0, 0, << 0, 0 >>) >>
    /\ is_active

(***************************************************************************)
(* C19: the VM goes Idle -> Running -> Halted: a newly constructed VM is   *)
(* not active until reset() is called, it becomes active only through      *)
(* reset(), and once it has left the active state it stays inactive until  *)
(* the next reset().                                                       *)
(***************************************************************************)
\* reset() has not succeeded yet: it leaves a frame, and the last frame
\* goes only when a return value is stored
NeverReset == call_stack = << >> /\ return_value = NullOpt

\* an inactive VM turns active in a call of reset() and in no other
ActiveByReset == ~is_active /\ is_active' => last_call' = "reset"

ActiveOnlyByReset == [][ActiveByReset]_vars

C19_IdleUntilReset == [](NeverReset => ~is_active) /\ ActiveOnlyByReset

\* step() on a VM that was loaded and never reset: it is active, and the
\* error is the one for an active VM without frames
C19_Witness ==
    /\ NeverReset
    /\ is_active
    /\ vm_entry_func # NullOpt
    /\ last_call = "step"
    /\ thrown = "VM: internal error (active but no frames)"

(***************************************************************************)
(* C20: in every reachable state the depth of the call stack is the        *)
(* current nesting of calls: at least 1 whenever the VM is active, one     *)
(* more after each executed call and one less after each executed return,  *)
(* and 0 whenever the VM is inactive after reset() or after halting.       *)
(***************************************************************************)
DepthWhenActive == is_active => Len(call_stack) >= 1

\* the VM is inactive only after reset() or after halting
DepthWhenInactive == ~is_active => Len(call_stack) = 0

\* step() has executed the instruction it fetched
Executed == StepCalled /\ Fetches /\ thrown' = "none" /\ pc' = pc

\* a call of a function without code returns within the same step
CallGrows ==
    Executed /\ IsCall(CurrentOp) =>
        Len(call_stack') = Len(call_stack) + (IF Callee.code = << >> THEN 0 ELSE 1)

ReturnShrinks ==
    Executed /\ CurrentOp.op = "Return" =>
        Len(call_stack') = Len(call_stack) - 1

OthersKeepDepth ==
    Executed /\ ~IsCall(CurrentOp) /\ CurrentOp.op # "Return" =>
        Len(call_stack') = Len(call_stack)

DepthFollowsCalls == [][CallGrows /\ ReturnShrinks /\ OthersKeepDepth]_vars

C20_DepthIsNesting ==
    /\ []DepthWhenActive
    /\ []DepthWhenInactive
    /\ DepthFollowsCalls

\* reset() with an entry function without instructions: inactive, one frame
C20_Witness ==
    /\ input.family = "entry"
    /\ last_call = "reset"
    /\ thrown = "none"
    /\ ~is_active
    /\ call_stack = << Frame(2, 0, << >>) >>

(***************************************************************************)
(* C21: a build() that fails with a compile error leaves no partial        *)
(* output: afterwards functions() holds no registered or partly compiled   *)
(* function and entry_function() has no value, in whichever pass and       *)
(* function the error occurred.                                            *)
(***************************************************************************)
C21_FailedBuildLeavesNothing ==
    last_call = "build" /\ BuildFailed =>
        functions = << >> /\ entry_func = NullOpt

\* `{ int x; } print x; return 0;` failed at `print x`: main is registered,
\* it is the entry function, and the code of the block is in it
C21_Witness ==
    /\ last_call = "build" /\ BuildFailed
    /\ thrown = "Undefined variable"
    /\ entry_func = Some(0)
    /\ Len(functions) = 1
    /\ functions[1].code = << BytecodePushI64(UNINITIALISED_VALUED),
                              BytecodeStoreLocal(0) >>

(***************************************************************************)
(* The front end: text, characters and tokens.                             *)
(*                                                                         *)
(* A text is a sequence of one-character strings; a position is the        *)
(* 0-based index of the C++ code.  The vertical tab, which a string of     *)
(* this notation cannot spell, is left out of the alphabet.                *)
(***************************************************************************)
\* code_[pos]
At(code, pos) == code[pos + 1]

\* code_.substr(start, len)
substr(code, start, len) == SubSeq(code, start + 1, start + len)

DigitChars == << "0", "1", "2", "3", "4", "5", "6", "7", "8", "9" >>

Letters ==
    { "a", "b", "c", "d", "e", "f", "g", "h", "i", "j", "k", "l", "m",
      "n", "o", "p", "q", "r", "s", "t", "u", "v", "w", "x", "y", "z",
      "A", "B", "C", "D", "E", "F", "G", "H", "I", "J", "K", "L", "M",
      "N", "O", "P", "Q", "R", "S", "T", "U", "V", "W", "X", "Y", "Z" }

is_whitespace(c) == c \in { " ", "\t", "\r", "\f" }

is_eos(c) == c = ";"

char_is_digit(c) == \E d \in 1..10 : DigitChars[d] = c

char_is_valid_for_identifier(c) == c \in Letters \/ c = "_"

is_valid_identifier(s) ==
    /\ s # << >>
    /\ char_is_valid_for_identifier(s[1])
    /\ \A i \in 2..Len(s) :
          char_is_valid_for_identifier(s[i]) \/ char_is_digit(s[i])

\* c - '0'
DigitValue(c) == (CHOOSE d \in 1..10 : DigitChars[d] = c) - 1

(***************************************************************************)
(* string_to_i64.  i64 has WordBits bits here, so pos_limit is             *)
(* 2^(WordBits-1) - 1 and neg_limit is one more; the u64 arithmetic of the *)
(* code never wraps, because the test before each multiplication keeps acc *)
(* at or below limit.                                                      *)
(***************************************************************************)
StdExpected(v) == [value |-> v, error |-> "none"]
StdUnexpected(e) == [value |-> 0, error |-> e]

pos_limit == 2 ^ (WordBits - 1) - 1
neg_limit == pos_limit + 1

RECURSIVE accumulate_without_digit(_, _, _, _, _)
\* accumulate with the overflow test acc > limit / 10, which forgets the digit
accumulate_without_digit(word, i, acc, sign, limit) ==
    IF i >= Len(word) THEN
        IF sign > 0 THEN StdExpected(acc)
        ELSE IF acc = neg_limit THEN StdExpected(-neg_limit)
        ELSE StdExpected(-acc)
    ELSE IF ~char_is_digit(At(word, i)) THEN StdUnexpected("InvalidDigit")
    ELSE IF acc > limit \div 10 THEN StdUnexpected("Overflow")
    ELSE accumulate_without_digit(word, i + 1,
                                  acc * 10 + DigitValue(At(word, i)), sign, limit)

RECURSIVE accumulate(_, _, _, _, _)
\* the loop over the digits, at index i (0-based) with acc so far
accumulate(word, i, acc, sign, limit) ==
    IF i >= Len(word) THEN
        IF sign > 0 THEN StdExpected(acc)
        ELSE IF acc = neg_limit THEN StdExpected(-neg_limit)
        ELSE StdExpected(-acc)
    ELSE IF ~char_is_digit(At(word, i)) THEN StdUnexpected("InvalidDigit")
    ELSE IF acc > (limit - DigitValue(At(word, i))) \div 10 THEN
        StdUnexpected("Overflow")
    ELSE accumulate(word, i + 1, acc * 10 + DigitValue(At(word, i)), sign, limit)

\* the conversion once the sign is known and the digits start at index i
convert_digits(word, i, sign) ==
    IF i >= Len(word) THEN StdUnexpected("InvalidDigit")
    ELSE IF At(word, i) = "0" /\ i + 1 < Len(word) THEN StdUnexpected("StartsWithZero")
    ELSE accumulate(word, i, 0, sign, IF sign < 0 THEN neg_limit ELSE pos_limit)

string_to_i64(word) ==
    IF word = << >> THEN StdUnexpected("Empty")
    ELSE IF word[1] = "-" THEN convert_digits(word, 1, -1)
    ELSE IF word[1] = "+" THEN StdUnexpected("InvalidDigit")
    ELSE convert_digits(word, 0, 1)

(***************************************************************************)
(* Lexer.  A lexer in progress is the record of tokenize_range's locals:   *)
(* the text, the end of the range, pos, line, col, the tokens emitted so   *)
(* far and the exception thrown, if any.                                   *)
(***************************************************************************)
Token(kind, lexeme, line, column) ==
    [kind |-> kind, lexeme |-> lexeme, line |-> line, column |-> column]

RECURSIVE compute_line_col_from(_, _, _, _, _)
\* the loop of compute_line_col_at, at index i with line and col so far
compute_line_col_from(code, i, pos, line, col) ==
    IF i >= pos THEN [line |-> line, col |-> col]
    ELSE IF At(code, i) = "\n" THEN compute_line_col_from(code, i + 1, pos, line + 1, 0)
    ELSE compute_line_col_from(code, i + 1, pos, line, col + 1)

\* compute_line_col_at counting from the start of the range, not of the text
compute_line_col_relative(code, pos) == [line |-> 0, col |-> 0]

compute_line_col_at(code, pos) == compute_line_col_from(code, 0, pos, 0, 0)

keyword_or_identifier(s) ==
    IF s = << "i", "n", "t" >> THEN "KWInt"
    ELSE IF s = << "p", "r", "i", "n", "t" >> THEN "KWPrint"
    ELSE IF s = << "f", "u", "n", "c" >> THEN "KWFunc"
    ELSE IF s = << "s", "t", "r", "u", "c", "t" >> THEN "KWStruct"
    ELSE IF s = << "r", "e", "t", "u", "r", "n" >> THEN "KWReturn"
    ELSE IF s = << "i", "f" >> THEN "KWIf"
    ELSE IF s = << "e", "l", "s", "e" >> THEN "KWElse"
    ELSE IF s = << "w", "h", "i", "l", "e" >> THEN "KWWhile"
    ELSE IF s = << "t", "r", "u", "e" >> THEN "KWTrue"
    ELSE IF s = << "f", "a", "l", "s", "e" >> THEN "KWFalse"
    ELSE "Identifier"

\* determine_token_kind either returns a kind or throws
determine_token_kind(lexeme) ==
    IF lexeme = << >> THEN
        [kind |-> "none", thrown |-> "Cannot build token out of empty lexeme"]
    ELSE IF char_is_digit(lexeme[1]) THEN
        IF string_to_i64(lexeme).error # "none"
        THEN [kind |-> "none", thrown |-> "Failed to convert lexeme"]
        ELSE [kind |-> "Integer", thrown |-> "none"]
    ELSE IF ~is_valid_identifier(lexeme) THEN
        [kind |-> "none", thrown |-> "not a valid identifier"]
    ELSE [kind |-> keyword_or_identifier(lexeme), thrown |-> "none"]

new_char(L) == [L EXCEPT !.pos = @ + 1, !.col = @ + 1]

new_line(L) == [L EXCEPT !.pos = @ + 1, !.line = @ + 1, !.col = 0]

emit_token(L, kind, start, len, tok_line, tok_col) ==
    [L EXCEPT !.out = Append(@, Token(kind, substr(L.code, start, len),
                                      tok_line, tok_col))]

\* out.emplace_back(TokenKind::Eof, std::string_view{}, line, col); break;
emit_eof(L) == [L EXCEPT !.out = Append(@, Token("Eof", << >>, L.line, L.col))]

\* a token of len characters starting at pos, and the new_char() calls after it
emit_operator(L, kind, len) ==
    [ emit_token(L, kind, L.pos, len, L.line, L.col)
        EXCEPT !.pos = @ + len, !.col = @ + len ]

RECURSIVE skip_whitespace(_)
\* the inner loop of lines 104-124
skip_whitespace(L) ==
    IF L.pos >= L.right THEN L
    ELSE IF At(L.code, L.pos) = "\n" THEN skip_whitespace(new_line(L))
    ELSE IF At(L.code, L.pos) = "\r" THEN
        IF L.pos + 1 < L.right /\ At(L.code, L.pos + 1) = "\n"
        THEN skip_whitespace(new_line([L EXCEPT !.pos = @ + 1]))
        ELSE skip_whitespace(new_char(L))
    ELSE IF is_whitespace(At(L.code, L.pos)) THEN skip_whitespace(new_char(L))
    ELSE L

RECURSIVE scan_string(_, _, _, _)
\* the loop of lines 143-164 and the String token after it
scan_string(L, content_start, tok_line, tok_col) ==
    IF L.pos >= L.right THEN Throw(L, "Unterminated string literal")
    ELSE IF At(L.code, L.pos) \in { "\n", "\r" } THEN
        Throw(L, "Unterminated string literal before newline")
    ELSE IF At(L.code, L.pos) = "\"" THEN
        new_char(emit_token(L, "String", content_start, L.pos - content_start,
                      tok_line, tok_col))
    ELSE IF is_eos(At(L.code, L.pos)) THEN
        Throw(L, "Unterminated string literal before ';'")
    ELSE scan_string(new_char(L), content_start, tok_line, tok_col)

RECURSIVE scan_digits(_)
\* while (pos < right && char_is_digit(code_[pos])) new_char();
scan_digits(L) ==
    IF L.pos < L.right /\ char_is_digit(At(L.code, L.pos))
    THEN scan_digits(new_char(L))
    ELSE L

\* lines 300-302, after the digits were scanned from start
emit_integer(L, start, tok_line, tok_col) ==
    IF determine_token_kind(substr(L.code, start, L.pos - start)).thrown # "none"
    THEN Throw(emit_token(L, "Integer", start, L.pos - start, tok_line, tok_col),
               determine_token_kind(substr(L.code, start, L.pos - start)).thrown)
    ELSE emit_token(L, "Integer", start, L.pos - start, tok_line, tok_col)

RECURSIVE scan_identifier(_)
\* while (pos < right && (identifier character || digit)) new_char();
scan_identifier(L) ==
    IF /\ L.pos < L.right
       /\ \/ char_is_valid_for_identifier(At(L.code, L.pos))
          \/ char_is_digit(At(L.code, L.pos))
    THEN scan_identifier(new_char(L))
    ELSE L

\* lines 311-319, after the run was scanned from start
emit_identifier(L, start, tok_line, tok_col) ==
    IF ~is_valid_identifier(substr(L.code, start, L.pos - start))
    THEN Throw(L, "Invalid identifier")
    ELSE emit_token(L, keyword_or_identifier(substr(L.code, start, L.pos - start)),
              start, L.pos - start, tok_line, tok_col)

\* the switch of lines 221-294
SingleCharacterKind(c) ==
    CASE c = "(" -> "LParen"
      [] c = ")" -> "RParen"
      [] c = "{" -> "LBrace"
      [] c = "}" -> "RBrace"
      [] c = "[" -> "LBracket"
      [] c = "]" -> "RBracket"
      [] c = "," -> "Comma"
      [] c = "=" -> "OpAssign"
      [] c = "+" -> "OpPlus"
      [] c = "-" -> "OpMinus"
      [] c = "*" -> "OpStar"
      [] c = "/" -> "OpSlash"
      [] c = "%" -> "OpPercent"
      [] c = "!" -> "OpBang"
      [] c = "." -> "OpPeriod"
      [] c = "<" -> "OpLt"
      [] c = ">" -> "OpGt"
      [] OTHER -> "none"

\* the two-character matches of lines 189-218
TwoCharacterKind(a, b) ==
    CASE a = "=" /\ b = "=" -> "OpEqEq"
      [] a = "!" /\ b = "=" -> "OpNeq"
      [] a = "<" /\ b = "=" -> "OpLe"
      [] a = ">" /\ b = "=" -> "OpGe"
      [] a = "o" /\ b = "r" -> "OpOr"
      [] OTHER -> "none"

\* the three-character match of lines 176-182
ThreeCharacterKind(a, b, c) ==
    IF a = "a" /\ b = "n" /\ c = "d" THEN "OpAnd" ELSE "none"

\* one token, lines 136-325: L.pos is at a character that is neither
\* whitespace nor the end of a statement
lex_token(L) ==
    IF At(L.code, L.pos) = "\"" THEN
        scan_string(new_char(L), L.pos + 1, L.line, L.col)
    ELSE IF /\ L.pos + 2 < L.right
            /\ ThreeCharacterKind(At(L.code, L.pos), At(L.code, L.pos + 1),
                                  At(L.code, L.pos + 2)) # "none"
    THEN emit_operator(L, "OpAnd", 3)
    ELSE IF /\ L.pos + 1 < L.right
            /\ TwoCharacterKind(At(L.code, L.pos), At(L.code, L.pos + 1)) # "none"
    THEN emit_operator(L, TwoCharacterKind(At(L.code, L.pos),
                                           At(L.code, L.pos + 1)), 2)
    ELSE IF SingleCharacterKind(At(L.code, L.pos)) # "none" THEN
        emit_operator(L, SingleCharacterKind(At(L.code, L.pos)), 1)
    ELSE IF char_is_digit(At(L.code, L.pos)) THEN
        emit_integer(scan_digits(L), L.pos, L.line, L.col)
    ELSE IF char_is_valid_for_identifier(At(L.code, L.pos)) THEN
        emit_identifier(scan_identifier(new_char(L)), L.pos, L.line, L.col)
    ELSE Throw(L, "Unexpected character")

RECURSIVE tokenize_loop(_)
\* lines 125-134 and the token after them
after_whitespace(L) ==
    IF L.pos >= L.right THEN emit_eof(L)
    ELSE IF is_eos(At(L.code, L.pos)) THEN
        tokenize_loop(new_char(emit_token(L, "Eos", L.pos, 1, L.line, L.col)))
    ELSE tokenize_loop(lex_token(L))

\* the loop of lines 98-326
tokenize_loop(L) ==
    IF ~Ok(L) THEN L
    ELSE IF L.pos >= L.right THEN emit_eof(L)
    ELSE after_whitespace(skip_whitespace(L))

\* Lexer{code}.tokenize_range(left, right): the tokens, or the exception
tokenize_range(code, left, right) ==
    IF left > right \/ right > Len(code) THEN
        [out |-> << >>, thrown |-> "tokenize_range: invalid range"]
    ELSE tokenize_loop([code |-> code, right |-> right, pos |-> left,
                        line |-> compute_line_col_at(code, left).line,
                        col |-> compute_line_col_at(code, left).col,
                        out |-> << >>, thrown |-> "none"])

tokenize_all(code) == tokenize_range(code, 0, Len(code))

(***************************************************************************)
(* Parser: expressions.  A parser in progress is the record of tokens_,    *)
(* pos_ (0-based), the exception thrown, if any, and the value the         *)
(* function at hand returns.  The tokens come from the lexer and end with  *)
(* Eof, which only the first advance() of parse_expr_bp can pass, and nud  *)
(* throws on it: peek() is always inside the tokens.                       *)
(***************************************************************************)
kCallPrec == 90
kAccessPrec == 100

NewParser(toks) == [tokens |-> toks, pos |-> 0, thrown |-> "none", expr |-> NullOpt]

at_end(P) == P.pos >= Len(P.tokens)

peek(P, offset) == P.tokens[P.pos + offset + 1]

previous(P) == P.tokens[P.pos]

advance(P) == IF ~at_end(P) THEN [P EXCEPT !.pos = @ + 1] ELSE P

\* return e;
Returning(P, e) == [P EXCEPT !.expr = e]

\* match(k): whether it consumes a token
Matches(P, k) == ~at_end(P) /\ peek(P, 0).kind = k

\* consume(k, msg)
consume(P, k, msg) == IF Matches(P, k) THEN advance(P) ELSE Throw(P, msg)

RECURSIVE skip_eos(_)
\* while (match(TokenKind::Eos)) {}
skip_eos(P) == IF Matches(P, "Eos") THEN skip_eos(advance(P)) ELSE P

adjacent_no_space(a, b) ==
    a.line = b.line /\ b.column = a.column + Len(a.lexeme)

is_expr_terminator(k) == k \in { "Eos", "Eof", "RParen", "Comma", "KWElse" }

\* infix_lbp with every operator at the binding power of `+`
infix_lbp_flat(k) ==
    IF k \in { "OpOr", "OpAnd", "OpEqEq", "OpNeq", "OpLt", "OpLe", "OpGt",
               "OpGe", "OpPlus", "OpMinus", "OpStar", "OpSlash", "OpPercent" }
    THEN 60 ELSE -1

infix_lbp(k) ==
    CASE k = "OpOr" -> 20
      [] k = "OpAnd" -> 30
      [] k \in { "OpEqEq", "OpNeq" } -> 40
      [] k \in { "OpLt", "OpLe", "OpGt", "OpGe" } -> 50
      [] k \in { "OpPlus", "OpMinus" } -> 60
      [] k \in { "OpStar", "OpSlash", "OpPercent" } -> 70
      [] OTHER -> -1

infix_rbp(k) == infix_lbp(k) + 1

is_prefix(k) == k \in { "OpMinus", "OpBang" }

\* defined for the kinds infix_lbp gives a binding power
to_binary_op(k) ==
    CASE k = "OpPlus" -> "Add"
      [] k = "OpMinus" -> "Sub"
      [] k = "OpStar" -> "Mul"
      [] k = "OpSlash" -> "Div"
      [] k = "OpPercent" -> "Mod"
      [] k = "OpEqEq" -> "Eq"
      [] k = "OpNeq" -> "Neq"
      [] k = "OpLt" -> "Lt"
      [] k = "OpLe" -> "Le"
      [] k = "OpGt" -> "Gt"
      [] k = "OpGe" -> "Ge"
      [] k = "OpAnd" -> "And"
      [] k = "OpOr" -> "Or"

to_unary_op(k) == IF k = "OpMinus" THEN "Neg" ELSE "Not"

\* the UnaryExpression around the operand R returned
make_unary(op, R) ==
    IF Ok(R) THEN Returning(R, UnaryExpression(op, R.expr)) ELSE R

\* the BinaryExpression of lhs and the right operand R returned
make_binary(op, lhs, R) ==
    IF Ok(R) THEN Returning(R, BinaryExpression(op, lhs, R.expr)) ELSE R

\* `( inner` was parsed: consume the `)` and return inner
close_paren(R) ==
    IF ~Ok(R) THEN R
    ELSE Returning(consume(R, "RParen",
                           "Expected ')' after parenthesized expression"), R.expr)

\* the field access of lines 189-217, P.expr being lhs
parse_access(P) ==
    IF peek(P, 1).kind # "Identifier" THEN
        Throw(P, "Expected identifier after '.'")
    ELSE IF \/ ~adjacent_no_space(previous(P), peek(P, 0))
            \/ ~adjacent_no_space(peek(P, 0), peek(P, 1)) THEN
        Throw(P, "No whitespace allowed around '.' (use a.b)")
    ELSE IF P.expr.kind \notin { "IdentifierExpression", "StructAccessExpression" } THEN
        Throw(P, "Field access lhs must be an identifier or a field access")
    ELSE Returning(advance(advance(P)),
                   StructAccessExpression(P.expr, peek(P, 1).lexeme))

\* the arguments were parsed into R.expr: consume the `)` and return the call
close_call(callee, R) ==
    IF ~Ok(R) THEN R
    ELSE Returning(consume(R, "RParen",
                           "Expected ')' after function call arguments"),
                   CallExpression(callee, R.expr))

RECURSIVE parse_expr_bp(_, _)
RECURSIVE parse_arguments(_, _)
\* the loop of lines 227-235: the argument R returned, then the rest
next_argument(args, R) ==
    IF ~Ok(R) THEN R
    ELSE IF Matches(R, "Comma") THEN parse_arguments(advance(R), Append(args, R.expr))
    ELSE Returning(R, Append(args, R.expr))

parse_arguments(P, args) == next_argument(args, parse_expr_bp(P, 0))

\* the call of lines 219-245, P.expr being lhs
parse_call(P) ==
    IF P.expr.kind # "IdentifierExpression" THEN
        Throw(P, "Only identifiers can be called as functions")
    ELSE IF peek(advance(P), 0).kind = "RParen" THEN
        close_call(P.expr, Returning(advance(P), << >>))
    ELSE close_call(P.expr, parse_arguments(advance(P), << >>))

\* nud(t), t being the token advance() just passed
nud(P, t) ==
    IF is_prefix(t.kind) THEN
        make_unary(to_unary_op(t.kind), parse_expr_bp(P, 80))
    ELSE IF t.kind = "Integer" THEN
        IF string_to_i64(t.lexeme).error # "none"
        THEN Throw(P, "Invalid integer literal")
        ELSE Returning(P, IntegerExpression(string_to_i64(t.lexeme).value))
    ELSE IF t.kind = "KWTrue" THEN Returning(P, IntegerExpression(1))
    ELSE IF t.kind = "KWFalse" THEN Returning(P, IntegerExpression(0))
    ELSE IF t.kind = "Identifier" THEN Returning(P, IdentifierExpression(t.lexeme))
    ELSE IF t.kind = "LParen" THEN close_paren(parse_expr_bp(P, 0))
    ELSE Throw(P, "Expected expression")

RECURSIVE infix_loop(_, _)
\* the loop of lines 187-267, P.expr being lhs
infix_loop(P, min_bp) ==
    IF ~Ok(P) \/ at_end(P) THEN P
    ELSE IF peek(P, 0).kind = "OpPeriod" /\ kAccessPrec >= min_bp THEN
        infix_loop(parse_access(P), min_bp)
    ELSE IF peek(P, 0).kind = "LParen" /\ kCallPrec >= min_bp THEN
        infix_loop(parse_call(P), min_bp)
    ELSE IF is_expr_terminator(peek(P, 0).kind) THEN P
    ELSE IF infix_lbp(peek(P, 0).kind) < min_bp THEN P
    ELSE infix_loop(make_binary(to_binary_op(peek(P, 0).kind), P.expr,
                                parse_expr_bp(advance(P),
                                              infix_rbp(peek(P, 0).kind))),
                    min_bp)

parse_expr_bp(P, min_bp) ==
    IF at_end(P) THEN Throw(P, "Expected expression but reached end of input")
    ELSE infix_loop(nud(advance(P), previous(advance(P))), min_bp)

\* the PrintStatement of the expression R returned, after the `;`s
make_print(R) ==
    IF ~Ok(R) THEN R ELSE Returning(skip_eos(R), PrintStatement(R.expr))

parse_print_statement(P) ==
    IF ~Matches(P, "KWPrint")
    THEN Throw(P, "Expected 'print' at start of PrintStatement")
    ELSE make_print(parse_expr_bp(advance(P), 0))

(***************************************************************************)
(* Expressions to parse: every tree of at most MaxOps infix operators, the *)
(* operands numbered from the left, spelled as text.                       *)
(***************************************************************************)
\* An expression has at most MaxOps infix operators.
MaxOps == 2

\* the binding powers of the infix operators, by BinaryOp
BindingPower ==
    [Or |-> 20, And |-> 30, Eq |-> 40, Neq |-> 40, Lt |-> 50, Le |-> 50,
     Gt |-> 50, Ge |-> 50, Add |-> 60, Sub |-> 60, Mul |-> 70, Div |-> 70,
     Mod |-> 70]

\* how the lexer wants them written
BinarySpelling ==
    [Or |-> << " ", "o", "r", " " >>, And |-> << " ", "a", "n", "d", " " >>,
     Eq |-> << "=", "=" >>, Neq |-> << "!", "=" >>, Lt |-> << "<" >>,
     Le |-> << "<", "=" >>, Gt |-> << ">" >>, Ge |-> << ">", "=" >>,
     Add |-> << "+" >>, Sub |-> << "-" >>, Mul |-> << "*" >>,
     Div |-> << "/" >>, Mod |-> << "%" >>]

UnarySpelling == [Neg |-> << "-" >>, Not |-> << "!" >>]

\* four operators of different binding powers
FewOperators == { "And", "Lt", "Add", "Mul" }

RECURSIVE Trees(_, _, _)
\* the expressions with n infix operators of ops over the operands
\* first, first + 1, ... from left to right
Trees(ops, n, first) ==
    IF n = 0 THEN { IntegerExpression(first) }
    ELSE UNION { { BinaryExpression(op, l, r) :
                     op \in ops,
                     l \in Trees(ops, k, first),
                     r \in Trees(ops, n - 1 - k, first + k + 1) } :
                 k \in 0..(n - 1) }

RECURSIVE Prefixed(_)
\* e with one prefix operator before one of its sub-expressions
Prefixed(e) ==
    { UnaryExpression(u, e) : u \in DOMAIN UnarySpelling }
    \cup IF e.kind = "BinaryExpression"
         THEN { BinaryExpression(e.op, l, e.rhs) : l \in Prefixed(e.lhs) }
              \cup { BinaryExpression(e.op, e.lhs, r) : r \in Prefixed(e.rhs) }
         ELSE { }

\* whether the operand e of the infix operator op must stand in parentheses:
\* it is an infix expression that binds less than op, or as much on the right
NeedsParentheses(e, op, on_right) ==
    /\ e.kind = "BinaryExpression"
    /\ \/ BindingPower[e.op] < BindingPower[op]
       \/ on_right /\ BindingPower[e.op] = BindingPower[op]

Parenthesised(text) == << "(" >> \o text \o << ")" >>

RECURSIVE Spelling(_, _)
\* the text of e: with the parentheses it needs, or (full) with parentheses
\* around every operand
Spelling(e, full) ==
    CASE e.kind = "IntegerExpression" -> << DigitChars[e.value + 1] >>
      [] e.kind = "UnaryExpression" ->
            UnarySpelling[e.op]
            \o IF full \/ e.rhs.kind = "BinaryExpression"
               THEN Parenthesised(Spelling(e.rhs, full))
               ELSE Spelling(e.rhs, full)
      [] e.kind = "BinaryExpression" ->
            (IF full \/ NeedsParentheses(e.lhs, e.op, FALSE)
             THEN Parenthesised(Spelling(e.lhs, full))
             ELSE Spelling(e.lhs, full))
            \o BinarySpelling[e.op]
            \o (IF full \/ NeedsParentheses(e.rhs, e.op, TRUE)
                THEN Parenthesised(Spelling(e.rhs, full))
                ELSE Spelling(e.rhs, full))

\* print <e>;
PrintText(e, full) ==
    << "p", "r", "i", "n", "t", " " >> \o Spelling(e, full) \o << ";" >>

ExpressionInput(e, full) ==
    [kind |-> "text", family |-> "expressions", code |-> PrintText(e, full),
     left |-> 0, right |-> Len(PrintText(e, full)), tree |-> e, full |-> full]

PlainTrees == UNION { Trees(DOMAIN BindingPower, n, 1) : n \in 0..MaxOps }

FewTrees == UNION { Trees(FewOperators, n, 1) : n \in 0..MaxOps }

PrefixedTrees == UNION { Prefixed(e) : e \in FewTrees }

ExpressionInputs ==
    { ExpressionInput(e, FALSE) : e \in PlainTrees \cup PrefixedTrees }
    \cup { ExpressionInput(e, TRUE) : e \in FewTrees }

(***************************************************************************)
(* Unit calls.  One behaviour of UnitSpec is one call of a function of the *)
(* front end on one input, as the unit tests make them: a text and a byte  *)
(* range handed to Lexer::tokenize_range, or a word handed to              *)
(* string_to_i64.                                                          *)
(***************************************************************************)
\* Texts have at most MaxText characters,
MaxText == 3
\* the words handed to string_to_i64 at most MaxWord,
MaxWord == 4
\* and a run of identifier characters continues a word by at most MaxSuffix.
MaxSuffix == 1

\* every text of at most n characters of the alphabet A
Texts(A, n) == UNION { [1..k -> A] : k \in 0..n }

TextInput(family, code, left, right) ==
    [kind |-> "text", family |-> family, code |-> code,
     left |-> left, right |-> right]

\* the characters of the operators, a letter and a blank
OperatorAlphabet == { "&", "|", "=", "!", "<", ">", "x", " " }

OperatorInputs ==
    { TextInput("operators", code, 0, Len(code)) :
        code \in Texts(OperatorAlphabet, MaxText) }

\* the ten keywords of keyword_or_identifier, by token kind
Keywords ==
    [KWInt |-> << "i", "n", "t" >>,
     KWPrint |-> << "p", "r", "i", "n", "t" >>,
     KWFunc |-> << "f", "u", "n", "c" >>,
     KWStruct |-> << "s", "t", "r", "u", "c", "t" >>,
     KWReturn |-> << "r", "e", "t", "u", "r", "n" >>,
     KWIf |-> << "i", "f" >>,
     KWElse |-> << "e", "l", "s", "e" >>,
     KWWhile |-> << "w", "h", "i", "l", "e" >>,
     KWTrue |-> << "t", "r", "u", "e" >>,
     KWFalse |-> << "f", "a", "l", "s", "e" >>]

\* how a run of identifier characters begins: a keyword, the spelling of a
\* logic operator, or a plain name
RunHeads ==
    { Keywords[k] : k \in DOMAIN Keywords }
    \cup { << "a", "n", "d" >>, << "o", "r" >>, << "x" >>, << "_" >> }

\* what stands before and after the run, with the tokens it lexes to
Piece(text, count) == [text |-> text, count |-> count]

RunLeads == { Piece(<< >>, 0), Piece(<< " " >>, 0), Piece(<< "1", "+" >>, 2) }

RunTrails ==
    { Piece(<< >>, 0), Piece(<< " " >>, 0), Piece(<< "+", "1" >>, 2),
      Piece(<< ";" >>, 1) }

RunInput(lead, run, trail) ==
    [kind |-> "text", family |-> "runs",
     code |-> lead.text \o run \o trail.text,
     left |-> 0, right |-> Len(lead.text) + Len(run) + Len(trail.text),
     lead |-> lead, run |-> run, trail |-> trail]

RunInputs ==
    { RunInput(lead, head \o tail, trail) :
        lead \in RunLeads, head \in RunHeads,
        tail \in Texts({ "x", "1", "_" }, MaxSuffix), trail \in RunTrails }

\* a blank, both line ends, a statement end, a quote and two tokens
RangeAlphabet == { "x", "1", " ", "\n", "\r", ";", "\"" }

\* every range of every text, and the ranges that end one past the text or
\* begin one past it
RangeInputs ==
    { r \in { TextInput("ranges", code, left, right) :
                code \in Texts(RangeAlphabet, MaxText),
                left \in 0..(MaxText + 1), right \in 0..(MaxText + 1) } :
        r.left <= Len(r.code) + 1 /\ r.right <= Len(r.code) + 1 }

WordAlphabet == { "0", "1", "2", "7", "8", "9", "-", "+", "a" }

WordInputs ==
    { [kind |-> "word", family |-> "numbers", word |-> word] :
        word \in Texts(WordAlphabet, MaxWord) }

(***************************************************************************)
(* Calls of patch_jump: the code of the function being compiled, of at     *)
(* most MaxCode instructions, and two calls one after the other, each at   *)
(* an index up to MaxCode (one past the last instruction at most) with the *)
(* sentinel or an index as the target.                                     *)
(***************************************************************************)
MaxCode == 2

PatchOperations ==
    { BytecodePushI64(0), BytecodeJmp(INVALIDIPtr), BytecodeJmpFalse(INVALIDIPtr),
      BytecodeJmpTrue(INVALIDIPtr), BytecodeJmp(0) }

PatchTargets == { INVALIDIPtr } \cup 0..MaxCode

Patch(where, target) == [where |-> where, target |-> target]

Patches == { Patch(where, target) : where \in 0..MaxCode, target \in PatchTargets }

PatchInputs ==
    { [kind |-> "code", family |-> "patches", code |-> code,
       patches |-> << first, second >>] :
        code \in Texts(PatchOperations, MaxCode), first \in Patches,
        second \in Patches }

\* the input is of one of the families
UnitInput(i) ==
    \/ i \in PatchInputs
    \/ i \in OperatorInputs
    \/ i \in RunInputs
    \/ i \in RangeInputs
    \/ i \in WordInputs
    \/ i \in ExpressionInputs

UnitInit ==
    /\ UnitInput(input)
    /\ functions = IF input.kind = "code"
                   THEN << FunctionBytecode(input.code, 0, 0) >> ELSE << >>
    /\ entry_func = NullOpt
    /\ vm_functions = << >>
    /\ vm_entry_func = NullOpt
    /\ stack = << >>
    /\ print_buffer = << >>
    /\ call_stack = << >>
    /\ is_active = TRUE
    /\ return_value = NullOpt
    /\ last_call = "none"
    /\ thrown = "none"
    /\ tokens = << >>
    /\ returned = NullOpt
    /\ pc = CASE input.kind = "text" -> "lex"
              [] input.kind = "word" -> "convert"
              [] input.kind = "code" -> "patch"

\* the builder in the middle of pass 2, compiling its function 0
Compiling == [NewBuilder EXCEPT !.functions = functions]

\* the call of patch_jump that is next
NextPatch == input.patches[IF pc = "patch" THEN 1 ELSE 2]

\* patch_jump(where, target);
PatchJump ==
    /\ pc \in { "patch", "patched" }
    /\ LET b == patch_jump(Compiling, NextPatch.where, NextPatch.target) IN
        /\ functions' = b.functions
        /\ thrown' = b.thrown
    /\ pc' = IF pc = "patch" THEN "patched" ELSE "done"
    /\ last_call' = "patch_jump"
    /\ UNCHANGED << input, entry_func, vm_vars, front_vars >>

\* tokens = Lexer{code}.tokenize_range(left, right);
Tokenize ==
    /\ pc = "lex"
    /\ LET L == tokenize_range(input.code, input.left, input.right) IN
        /\ tokens' = IF Ok(L) THEN L.out ELSE tokens
        /\ thrown' = L.thrown
    /\ pc' = IF input.family = "expressions" THEN "parse" ELSE "done"
    /\ last_call' = "tokenize_range"
    /\ UNCHANGED << input, builder_vars, vm_vars, returned >>

\* Parser parser{tokens}; auto st = parser.parse_print_statement();
ParsePrintStatement ==
    /\ pc = "parse"
    /\ LET P == parse_print_statement(NewParser(tokens)) IN
        /\ returned' = IF Ok(P) THEN Some(P.expr) ELSE returned
        /\ thrown' = P.thrown
    /\ pc' = "done"
    /\ last_call' = "parse_print_statement"
    /\ UNCHANGED << input, builder_vars, vm_vars, tokens >>

\* auto res = string_to_i64(word);
StringToI64 ==
    /\ pc = "convert"
    /\ returned' = Some(string_to_i64(input.word))
    /\ thrown' = "none"
    /\ pc' = "done"
    /\ last_call' = "string_to_i64"
    /\ UNCHANGED << input, builder_vars, vm_vars, tokens >>

UnitNext == Tokenize \/ StringToI64 \/ ParsePrintStatement \/ PatchJump

UnitSpec == UnitInit /\ [][UnitNext]_vars

(***************************************************************************)
(* C22.  The doubled operators.                                            *)
(***************************************************************************)
Lexed == last_call = "tokenize_range"

\* the two-character operators of the language, by token kind
DoubledOperators ==
    [OpEqEq |-> << "=", "=" >>, OpNeq |-> << "!", "=" >>,
     OpLe |-> << "<", "=" >>, OpGe |-> << ">", "=" >>,
     OpAnd |-> << "&", "&" >>, OpOr |-> << "|", "|" >>]

\* lexing returned one token of this kind spelling the whole text, then Eof
SingleToken(kind) ==
    /\ thrown = "none"
    /\ tokens = << Token(kind, input.code, 0, 0),
                   Token("Eof", << >>, 0, Len(input.code)) >>

\* C22: the text `&&` lexes to a single logical-and token and `||` to a
\* single logical-or token, as `==`, `!=`, `<=` and `>=` lex to single
\* tokens, while a lone `&` or a lone `|` is a lex error.
C22_DoubledOperatorsAreTokens ==
    Lexed /\ input.family = "operators" =>
        /\ \A kind \in DOMAIN DoubledOperators :
              input.code = DoubledOperators[kind] => SingleToken(kind)
        /\ input.code \in { << "&" >>, << "|" >> } => thrown # "none"

\* `&&` was handed to the lexer, which threw at its first character
C22_Witness ==
    /\ Lexed
    /\ input.code = << "&", "&" >>
    /\ thrown = "Unexpected character"
    /\ tokens = << >>

(***************************************************************************)
(* C23.  Runs of identifier characters.                                    *)
(***************************************************************************)
\* the kind of a whole run: the keyword it spells, or Identifier
RunKind(run) ==
    IF \E kind \in DOMAIN Keywords : Keywords[kind] = run
    THEN CHOOSE kind \in DOMAIN Keywords : Keywords[kind] = run
    ELSE "Identifier"

\* the number of tokens the run itself was lexed to
RunTokens == Len(tokens) - input.lead.count - input.trail.count - 1

\* the token at the place of the run
RunToken == tokens[input.lead.count + 1]

\* C23: a maximal run of letters, digits and underscores that starts with a
\* letter or an underscore is lexed as exactly one token whose lexeme is the
\* whole run, a keyword token when the run is one of the ten keywords and an
\* Identifier otherwise, whatever characters the run begins with.
C23_RunIsOneToken ==
    Lexed /\ input.family = "runs" =>
        /\ thrown = "none"
        /\ RunTokens = 1
        /\ RunToken = Token(RunKind(input.run), input.run, 0, Len(input.lead.text))

\* `andx` was lexed to the operator `and` followed by the identifier `x`
C23_Witness ==
    /\ Lexed
    /\ input.family = "runs"
    /\ input.code = << "a", "n", "d", "x" >>
    /\ tokens = << Token("OpAnd", << "a", "n", "d" >>, 0, 0),
                   Token("Identifier", << "x" >>, 0, 3),
                   Token("Eof", << >>, 0, 4) >>

StartsWith(s, prefix) ==
    Len(s) >= Len(prefix) /\ SubSeq(s, 1, Len(prefix)) = prefix

\* The runs that begin with neither `and` nor `or` are one token each.
OtherRunsAreOneToken ==
    /\ Lexed
    /\ input.family = "runs"
    /\ ~StartsWith(input.run, << "a", "n", "d" >>)
    /\ ~StartsWith(input.run, << "o", "r" >>)
    => /\ thrown = "none"
       /\ RunTokens = 1
       /\ RunToken = Token(RunKind(input.run), input.run, 0, Len(input.lead.text))

(***************************************************************************)
(* C24.  string_to_i64.                                                    *)
(***************************************************************************)
Converted == last_call = "string_to_i64"

Result == ValueOf(returned)

AllDigits(s) == \A i \in 1..Len(s) : char_is_digit(s[i])

RECURSIVE DecimalValue(_)
\* the number a string of digits denotes
DecimalValue(s) ==
    IF s = << >> THEN 0
    ELSE 10 * DecimalValue(SubSeq(s, 1, Len(s) - 1)) + DigitValue(s[Len(s)])

\* the largest i64, 2^63 - 1 in the program
INT64_MAX == 2 ^ (WordBits - 1) - 1

\* C24 as stated: a string of digits converts to its decimal value when it
\* is `0` or has no leading zero and the value is at most INT64_MAX; the
\* result is StartsWithZero for a leading `0` followed by more characters,
\* Overflow when the value exceeds INT64_MAX, Empty for the empty string and
\* InvalidDigit when any character is not a digit.
C24_AsStated ==
    Converted =>
        /\ input.word = << >> => Result = StdUnexpected("Empty")
        /\ Len(input.word) > 1 /\ input.word[1] = "0" =>
              Result = StdUnexpected("StartsWithZero")
        /\ ~AllDigits(input.word) => Result = StdUnexpected("InvalidDigit")
        /\ /\ input.word # << >>
           /\ AllDigits(input.word)
           /\ Len(input.word) = 1 \/ input.word[1] # "0"
           => IF DecimalValue(input.word) <= INT64_MAX
              THEN Result = StdExpected(DecimalValue(input.word))
              ELSE Result = StdUnexpected("Overflow")

\* the word without its sign, the sign, and the largest magnitude of that sign
Magnitude == IF input.word[1] = "-" THEN Tail(input.word) ELSE input.word

Sign == IF input.word[1] = "-" THEN -1 ELSE 1

Limit == IF Sign < 0 THEN INT64_MAX + 1 ELSE INT64_MAX

\* reading the magnitude from the left, character i is where it goes wrong:
\* it is no digit, or the digits up to it denote more than the limit
GoesWrongAt(i) ==
    \/ ~char_is_digit(Magnitude[i])
    \/ DecimalValue(SubSeq(Magnitude, 1, i)) > Limit

FirstWrong == CHOOSE i \in 1..Len(Magnitude) :
                 GoesWrongAt(i) /\ \A j \in 1..(i - 1) : ~GoesWrongAt(j)

\* C24, amended: an optional leading `-` is a sign.  The empty string gives
\* Empty, a leading `+` or a `-` alone InvalidDigit, and a magnitude of more
\* than one character that begins with `0` StartsWithZero.  Otherwise the
\* magnitude is read from the left: the first character that is no digit
\* gives InvalidDigit, the first digit that takes the value above the limit
\* (INT64_MAX, or INT64_MAX + 1 after `-`) gives Overflow, and a magnitude
\* read to its end gives its decimal value with the sign applied.
C24_SignedDecimal ==
    Converted =>
        IF input.word = << >> THEN Result = StdUnexpected("Empty")
        ELSE IF input.word[1] = "+" \/ Magnitude = << >> THEN
            Result = StdUnexpected("InvalidDigit")
        ELSE IF Magnitude[1] = "0" /\ Len(Magnitude) > 1 THEN
            Result = StdUnexpected("StartsWithZero")
        ELSE IF \E i \in 1..Len(Magnitude) : GoesWrongAt(i) THEN
            IF char_is_digit(Magnitude[FirstWrong])
            THEN Result = StdUnexpected("Overflow")
            ELSE Result = StdUnexpected("InvalidDigit")
        ELSE Result = StdExpected(Sign * DecimalValue(Magnitude))

\* the word for the smallest i64 was converted to it
C24_Witness ==
    /\ Converted
    /\ input.word # << >>
    /\ input.word[1] = "-"
    /\ AllDigits(Magnitude)
    /\ DecimalValue(Magnitude) = INT64_MAX + 1
    /\ Result = StdExpected(-INT64_MAX - 1)

(***************************************************************************)
(* C25.  The end-of-file token.                                            *)
(***************************************************************************)
\* the line ends among the first pos characters
LineEndsBefore(pos) == { i \in 1..pos : input.code[i] = "\n" }

\* zero-based line and column of the position after the first pos characters
LineAt(pos) == Cardinality(LineEndsBefore(pos))

ColumnAt(pos) ==
    IF LineEndsBefore(pos) = { } THEN pos
    ELSE pos - (CHOOSE i \in LineEndsBefore(pos) :
                   \A j \in LineEndsBefore(pos) : j <= i)

EofTokens == { i \in 1..Len(tokens) : tokens[i].kind = "Eof" }

Parsed == last_call = "parse_print_statement"

\* C26: expression parsing respects the binding powers.  The text of an
\* expression tree, written with parentheses only around an operand that is
\* an infix expression binding less than the operator beside it (or as much,
\* on its right) and around the infix operand of a prefix operator, parses
\* back to that tree: the operator of higher binding power is beneath the
\* adjacent one of lower binding power, equal binding powers nest to the
\* left, and a prefix operator takes the operand that follows it before any
\* infix operator.  Written with parentheses around every operand it parses
\* to the same tree: a parenthesised operand is one operand and adds no node.
C26_ParsingRespectsBindingPower ==
    Parsed /\ input.family = "expressions" =>
        /\ thrown = "none"
        /\ returned = Some(PrintStatement(input.tree))

\* `print -(1+2)*3;` was parsed to (-(1+2))*3
C26_Witness ==
    /\ Parsed
    /\ input.code = << "p", "r", "i", "n", "t", " ",
                       "-", "(", "1", "+", "2", ")", "*", "3", ";" >>
    /\ returned = Some(PrintStatement(
           BinaryExpression("Mul",
               UnaryExpression("Neg",
                   BinaryExpression("Add", IntegerExpression(1), IntegerExpression(2))),
               IntegerExpression(3))))

\* The examples of the claim are among the expressions parsed.
ExamplesParsed ==
    /\ ExpressionInput(BinaryExpression("Add", IntegerExpression(1),
           BinaryExpression("Mul", IntegerExpression(2), IntegerExpression(3))),
           FALSE).code
         = << "p", "r", "i", "n", "t", " ", "1", "+", "2", "*", "3", ";" >>
    /\ ExpressionInput(BinaryExpression("Sub",
           BinaryExpression("Sub", IntegerExpression(1), IntegerExpression(2)),
           IntegerExpression(3)), FALSE).code
         = << "p", "r", "i", "n", "t", " ", "1", "-", "2", "-", "3", ";" >>
    /\ ExpressionInput(BinaryExpression("Sub", IntegerExpression(1),
           BinaryExpression("Sub", IntegerExpression(2), IntegerExpression(3))),
           FALSE).code
         = << "p", "r", "i", "n", "t", " ", "1", "-", "(", "2", "-", "3", ")", ";" >>

(***************************************************************************)
(* C27: for both struct forms that carry an initializer list, the          *)
(* declaration `Type v = { ... }` and the assignment `v = { ... }`,        *)
(* build() fails with a compile error when the number of initializer       *)
(* expressions differs from the struct type's field count, and compiles    *)
(* the statement when the counts are equal.                                *)
(***************************************************************************)
\* build() was called on a program with a struct initializer list
BuiltStruct == input.family = "structs" /\ pc # "build"

\* the code of an initializer list of k expressions for the slots from 0
StoredInitializers(k) ==
    [i \in 1..(2 * k) |->
        IF i % 2 = 1 THEN BytecodePushI64((i + 1) \div 2)
        ELSE BytecodeStoreLocal(i \div 2 - 1)]

\* main's code when each initializer list of its body is compiled
StructCode ==
    (IF input.form = "assignment" THEN StoredInitializers(input.fields)
     ELSE << >>)
    \o StoredInitializers(input.count)
    \o << BytecodePushI64(0), Bytecode("Return") >>

\* build() returned, and main holds the code of the whole body
StructCompiled ==
    /\ pc \in { "load", "run" }
    /\ Len(functions) = 1
    /\ functions[1].code = StructCode

\* build() threw the error of a wrong initializer count
InitializerArityMismatch == pc = "failed" /\ thrown = "Struct initializer arity mismatch"

InitializerCountChecked ==
    IF input.count # input.fields THEN InitializerArityMismatch ELSE StructCompiled

C27_InitializerCountChecked == BuiltStruct => InitializerCountChecked

\* the assignment `v = { 1 };` to a v of two fields was built without error
C27_Witness ==
    /\ BuiltStruct
    /\ input.form = "assignment"
    /\ input.fields = 2
    /\ input.count = 1
    /\ pc = "load"
    /\ thrown = "none"

\* what holds of the two forms: the declaration is checked as stated; the
\* assignment is never checked and never compiled
DeclarationCheckedAssignmentNot ==
    BuiltStruct =>
        IF input.form = "declaration" THEN InitializerCountChecked
        ELSE /\ ~InitializerArityMismatch
             /\ \/ pc = "killed"
                \/ /\ pc \in { "load", "run" }
                   /\ functions[1].code =
                        StoredInitializers(input.fields)
                        \o << BytecodePushI64(0), Bytecode("Return") >>

(***************************************************************************)
(* C28: for compiled `while (c) { body }`, the condition is evaluated      *)
(* before every iteration, the body executes exactly once for each time    *)
(* the condition evaluates to nonzero, control returns to the condition    *)
(* after each body execution, and execution continues with the statement   *)
(* after the loop the first time the condition evaluates to 0 (zero body   *)
(* executions if it is 0 initially); `int x=0; while(x<3){ print x;        *)
(* x=x+1; }` prints exactly three values.                                  *)
(***************************************************************************)
\* the instructions of an expression, counted on the tree
RECURSIVE CodeSize(_)
CodeSize(e) ==
    IF e.kind = "BinaryExpression" THEN CodeSize(e.lhs) + CodeSize(e.rhs) + 1
    ELSE 1

\* where the parts of the loop of main lie: the declaration of x is two
\* instructions, a print three, an assignment its expression and a store
LoopLayout ==
    LET start == 2
        jump == start + CodeSize(LoopCond(input.form, input.last))
        back == jump + 1 + 3 + 3 + 1
    IN [start |-> start, jump |-> jump, body |-> jump + 1, back |-> back,
        after |-> back + 1]

\* step() executes the instruction at i of a counting loop
LoopStepAt(i) ==
    /\ input.family = "loops"
    /\ pc = "run"
    /\ Executed
    /\ CurrentFrame.ip = i

NextIp == call_stack'[Len(call_stack')].ip

\* the values the loop prints, and the marker after them
RECURSIVE Counted(_, _, _, _)
\* the first n values at most
Counted(form, x, last, n) ==
    IF n = 0 \/ (IF form = "up" THEN x >= last ELSE x = 0) THEN << >>
    ELSE << x >> \o Counted(form, Wrap(IF form = "up" THEN x + 1 ELSE x - 1),
                             last, n - 1)

LoopPrints ==
    Counted(input.form, input.first, input.last, MaxPrint + 2) \o << Marker >>

IsPrefix(s, t) == Len(s) <= Len(t) /\ SubSeq(t, 1, Len(s)) = s

LoopRuns ==
    /\ LoopStepAt(LoopLayout.jump) =>
          /\ stack # << >>
          /\ NextIp = IF Top(VM) # 0 THEN LoopLayout.body ELSE LoopLayout.after
          /\ Top(VM) # 0 =>
                IsPrefix(print_buffer \o << CurrentFrame.locals[1] >>, LoopPrints)
          /\ Top(VM) = 0 => print_buffer \o << Marker >> = LoopPrints
    /\ LoopStepAt(LoopLayout.back) => NextIp = LoopLayout.start
    /\ \A i \in LoopLayout.body .. (LoopLayout.back - 1) :
          LoopStepAt(i) => NextIp = i + 1
    /\ (input.family = "loops" /\ pc = "run" /\ StepCalled /\ ~is_active'
          /\ thrown' = "none") => print_buffer' = LoopPrints

WhileRuns == input.family = "loops" => LoopRuns

C28_WhileRepeatsWhileNonzero == [][WhileRuns]_vars

\* `int x = 0; while (x < 3) { print x; x = x + 1; }` has halted with 0, 1, 2
\* and the marker printed
C28_Witness ==
    /\ input.family = "loops"
    /\ input.form = "up"
    /\ input.first = 0
    /\ input.last = 3
    /\ Halted
    /\ print_buffer = << 0, 1, 2, Marker >>

(***************************************************************************)
(* C29: compiled `if (c) { T } else { E }` executes exactly one of the two *)
(* blocks, T when c is nonzero and E when c is 0, and then continues with  *)
(* the statement after the if; when the else block is absent or empty no   *)
(* unconditional jump and no else code are emitted, and c equal to 0       *)
(* executes neither block.                                                 *)
(***************************************************************************)
\* what the prints of a block print
BlockPrints(sts) == [i \in 1..Len(sts) |-> sts[i].expr.value]

\* what a run of the branch prints: one block, then the marker
BranchPrints ==
    BlockPrints(IF input.cond # 0 THEN input.then_scope ELSE input.else_scope)
    \o << Marker >>

\* how many instructions of code have an operation of ops
CountOps(code, ops) == Cardinality({ i \in 1..Len(code) : code[i].op \in ops })

\* main as build() left it
BranchCode == functions[1].code

\* the prints and the jumps of main are those of the statements compiled:
\* the then-block, the else-block when it has statements, and the marker
BranchEmitted ==
    /\ CountOps(BranchCode, { "Print" }) =
          Len(input.then_scope) + Len(input.else_scope) + 1
    /\ CountOps(BranchCode, { "JmpFalse" }) = 1
    /\ CountOps(BranchCode, { "Jmp" }) = IF input.else_scope = << >> THEN 0 ELSE 1
    /\ Len(BranchCode) =
          2 + 2 + 3 * Len(input.then_scope)
          + (IF input.else_scope = << >> THEN 0
             ELSE 1 + 3 * Len(input.else_scope))
          + 3 + 2

C29_IfRunsOneBlock ==
    input.family = "branches" =>
        /\ Built => BranchEmitted
        /\ (pc = "run" /\ is_active) => IsPrefix(print_buffer, BranchPrints)
        /\ Halted => print_buffer = BranchPrints

\* `int x = 0; if (x) { print 1; }` without else has halted: no jump was
\* emitted, and only the marker is printed
C29_Witness ==
    /\ input.family = "branches"
    /\ input.cond = 0
    /\ input.then_scope # << >>
    /\ input.else_scope = << >>
    /\ Halted
    /\ CountOps(BranchCode, { "Jmp" }) = 0
    /\ print_buffer = << Marker >>

\* a nonzero condition, negative or not, has run the then-block and not the
\* else-block
ThenBlockRan ==
    /\ input.family = "branches"
    /\ input.cond = -1
    /\ Len(input.else_scope) = 2
    /\ Halted
    /\ print_buffer = << 1, Marker >>

(***************************************************************************)
(* C30: patch_jump sets the target of a jump instruction at most once:     *)
(* patching a jump that is already patched, patching with the unpatched    *)
(* sentinel as target, or patching an instruction that is not a jump each  *)
(* fail with an error and leave the instruction unchanged.                 *)
(***************************************************************************)
\* the code patch_jump works on
PatchedCode == functions[1].code

\* patch p names an instruction of the code
InCode(p) == p.where < Len(PatchedCode)

\* patch p is at a jump that was never given a target, with a target to give
Patchable(p) ==
    /\ InCode(p)
    /\ IsJump(PatchedCode[p.where + 1])
    /\ PatchedCode[p.where + 1].target_ip = INVALIDIPtr
    /\ p.target # INVALIDIPtr

\* the error of the call with patch p that the claim names
PatchError(p) ==
    IF p.target = INVALIDIPtr THEN "patch_jump: target INVALIDIPtr"
    ELSE IF ~IsJump(PatchedCode[p.where + 1]) THEN "patch_jump: not a jump op"
    ELSE "patch_jump: already patched"

PatchJumpCalled == pc \in { "patch", "patched" } /\ last_call' = "patch_jump"

PatchesOnce ==
    PatchJumpCalled =>
        /\ Patchable(NextPatch) =>
              /\ thrown' = "none"
              /\ functions' =
                    [functions EXCEPT ![1].code[NextPatch.where + 1].target_ip =
                                          NextPatch.target]
        /\ (InCode(NextPatch) /\ ~Patchable(NextPatch)) =>
              /\ thrown' = PatchError(NextPatch)
              /\ functions' = functions
        \* the second call at the place of a first call that set the target
        /\ (pc = "patched" /\ thrown = "none"
              /\ NextPatch.where = input.patches[1].where) =>
              /\ thrown' # "none"
              /\ functions' = functions

C30_PatchJumpPatchesOnce == [][PatchesOnce]_vars

\* JMP_FALSE was patched to 1, and the second patch_jump at it, to 2, failed
C30_Witness ==
    /\ input.family = "patches"
    /\ input.code = << BytecodeJmpFalse(INVALIDIPtr) >>
    /\ input.patches = << Patch(0, 1), Patch(0, 2) >>
    /\ pc = "done"
    /\ thrown = "patch_jump: already patched"
    /\ PatchedCode = << BytecodeJmpFalse(1) >>

\* the other two errors happen: the sentinel as target, and not a jump
OtherPatchErrors ==
    /\ input.family = "patches"
    /\ input.code = << BytecodePushI64(0), BytecodeJmp(INVALIDIPtr) >>
    /\ input.patches = << Patch(1, INVALIDIPtr), Patch(0, 1) >>
    /\ pc = "done"
    /\ thrown = "patch_jump: not a jump op"
    /\ PatchedCode = input.code

(***************************************************************************)
(* C31: within one function, leaving a scope restores the next-free-slot   *)
(* counter to the value it had when the scope was entered, so sibling      *)
(* scopes reuse the same slots, while the function's num_locals equals the *)
(* largest value the counter ever reached during compilation of that       *)
(* function and is never less than num_params.                             *)
(***************************************************************************)
\* the slots a declaration takes
SlotsOf(st) == IF st.kind = "StructDeclarationAssignmentStatement" THEN 2 ELSE 1

\* the slots counter .. counter + n - 1
SlotsFrom(counter, n) == [i \in 1..n |-> counter + i - 1]

RECURSIVE DeclaredSlots(_, _, _)
\* the slots the declarations of sts[i..] get, in the order of the text,
\* when the counter is counter before sts[i] and a block gives it back
DeclaredSlots(sts, i, counter) ==
    IF i > Len(sts) THEN << >>
    ELSE IF sts[i].kind = "ScopeStatement"
    THEN DeclaredSlots(sts[i].scope, 1, counter)
         \o DeclaredSlots(sts, i + 1, counter)
    ELSE SlotsFrom(counter, SlotsOf(sts[i]))
         \o DeclaredSlots(sts, i + 1, counter + SlotsOf(sts[i]))

RECURSIVE CounterPeak(_, _, _)
\* the largest value that counter reaches
CounterPeak(sts, i, counter) ==
    IF i > Len(sts) THEN counter
    ELSE IF sts[i].kind = "ScopeStatement"
    THEN Max(CounterPeak(sts[i].scope, 1, counter),
             CounterPeak(sts, i + 1, counter))
    ELSE CounterPeak(sts, i + 1, counter + SlotsOf(sts[i]))

IsStore(o) == o.op = "StoreLocal"

\* the slots of the stores of code, in order
StoredSlots(code) ==
    [i \in 1..Len(SelectSeq(code, IsStore)) |-> SelectSeq(code, IsStore)[i].slot]

\* f as build() compiled it
ScopedFunction == functions[1]

C31_ScopesGiveSlotsBack ==
    (input.family = "scopes" /\ Built) =>
        /\ StoredSlots(ScopedFunction.code) =
              DeclaredSlots(input.body, 1, Len(input.params))
        /\ ScopedFunction.num_locals =
              CounterPeak(input.body, 1, Len(input.params))
        /\ ScopedFunction.num_locals >= ScopedFunction.num_params

\* f(a) { { int v1; int v2; } { int v1; } int v3; }: the second block and
\* the declaration after it start again at slot 1, and num_locals is 3
C31_Witness ==
    /\ input.family = "scopes"
    /\ input.params = << "a" >>
    /\ input.body = << InnerBlock(2), InnerBlock(1), IntItem(3) >>
    /\ Built
    /\ StoredSlots(ScopedFunction.code) = << 1, 2, 1, 1 >>
    /\ ScopedFunction.num_locals = 3

(***************************************************************************)
(* C32: calling a function whose instruction list is empty behaves as an   *)
(* immediate return for every operand-stack content: the call succeeds,    *)
(* after the call step the call-frame depth is the same as before it, and  *)
(* the caller resumes at the instruction following the call.               *)
(***************************************************************************)
\* step() fetches a call that passes the four tests of do_call, of a callee
\* without instructions
FetchesEmptyCall ==
    /\ FetchesCall
    /\ Argc(CurrentOp) = Callee.num_params
    /\ Callee.num_locals >= Callee.num_params
    /\ Len(stack) >= Argc(CurrentOp)
    /\ Callee.code = << >>

EmptyCallReturns ==
    (StepCalled /\ FetchesEmptyCall) =>
        /\ thrown' = "none"
        /\ Len(call_stack') = Len(call_stack)
        /\ call_stack' = Advanced

C32_EmptyCalleeReturnsAtOnce == [][EmptyCallReturns]_vars

\* `call 2` with nothing on the stack: the step threw out of do_return, and
\* the frame of the empty function 2 is on the call stack
C32_Witness ==
    /\ input.family = "raw"
    /\ last_call = "step"
    /\ thrown = "VM return: missing return value on stack"
    /\ Len(call_stack) = 2
    /\ call_stack[2] = Frame(2, 0, << >>)
    /\ call_stack[1].ip = 1
    /\ stack = << >>

\* with a value on the stack the call does what the claim says
EmptyCallWithValueReturns ==
    [][(StepCalled /\ FetchesEmptyCall /\ Len(stack) > Argc(CurrentOp)) =>
          /\ thrown' = "none"
          /\ call_stack' = Advanced
          /\ stack' = stack]_vars

(***************************************************************************)
(* C33: declaring a local whose name is already bound in the same          *)
(* innermost scope fails compilation; this includes a local declared       *)
(* directly in a function body with the name of one of that function's     *)
(* parameters, and struct-typed locals; declaring the same name in a       *)
(* nested scope is accepted.                                               *)
(***************************************************************************)
\* build() was called on a program of two declarations
BuiltRedeclaration == input.family = "redeclare" /\ pc # "build"

\* the second declaration binds the name of the first in the scope of the first
Redeclares == input.name = "x" /\ input.place = "same"

AlreadyDeclared ==
    pc = "failed" /\ thrown = "Variable already declared in this scope"

C33_RedeclarationFails ==
    BuiltRedeclaration => IF Redeclares THEN AlreadyDeclared ELSE Built

\* `func f(x) { P x = {1, 2}; }` was rejected
C33_Witness ==
    /\ BuiltRedeclaration
    /\ input.first = "parameter"
    /\ input.second = "struct"
    /\ Redeclares
    /\ AlreadyDeclared

\* `func f() { int x = 1; { int x; } }` was compiled
NestedRedeclarationBuilt ==
    /\ BuiltRedeclaration
    /\ input.first = "int ="
    /\ input.second = "int"
    /\ input.name = "x"
    /\ input.place = "block"
    /\ Built

(***************************************************************************)
(* C34: in code produced by build(), every statement is stack-neutral and  *)
(* every expression nets exactly one pushed value: whenever execution of a *)
(* frame is at the start of a statement, the operand stack depth equals    *)
(* its depth when that frame was entered, so when `main` returns the       *)
(* operand stack is empty.                                                 *)
(***************************************************************************)
\* the builder when pass 2 of build() begins
BeforePass2 ==
    RegisterFunctions(RegisterTopLevel(ClearBuilder(NewBuilder), input.program, 1),
                      SelectSeq(input.program, IsFunctionStatement), 1)

\* the builder when it begins the body of f
AtBodyOf(f) ==
    begin_function_locals(ClearFunction(SetActive(BeforePass2, f), f), f.vars)

\* the builder after the condition of an if or a while and its JMP_FALSE
AfterCondition(b, e) == emit(build_expression(b, e), BytecodeJmpFalse(INVALIDIPtr))

RECURSIVE StatementStarts(_, _, _)
RECURSIVE BlockStarts(_, _)
\* where the statements of sts[i..] start when b is the builder before
\* sts[i], those of their blocks included, and where the list ends
StatementStarts(b, sts, i) ==
    IF i > Len(sts) THEN { ip(b) }
    ELSE { ip(b) } \cup BlockStarts(b, sts[i])
         \cup StatementStarts(build_statement(b, sts[i]), sts, i + 1)

\* where the statements of the blocks of st start
BlockStarts(b, st) ==
    CASE st.kind = "ScopeStatement" -> StatementStarts(begin_scope(b), st.scope, 1)
      [] st.kind = "WhileStatement" ->
            StatementStarts(begin_scope(AfterCondition(b, st.while_expr)),
                            st.do_scope, 1)
      [] st.kind = "IfStatement" ->
            StatementStarts(begin_scope(AfterCondition(b, st.if_expr)),
                            st.then_scope, 1)
            \cup (IF st.else_scope = << >> THEN { }
                  ELSE StatementStarts(
                          begin_scope(emit(build_block(AfterCondition(b, st.if_expr),
                                                       st.then_scope),
                                           BytecodeJmp(INVALIDIPtr))),
                          st.else_scope, 1))
      [] OTHER -> { }

\* the function of the program that frame fr runs
FunctionOf(fr) == SelectSeq(input.program, IsFunctionStatement)[fr.func_id + 1]

\* frame fr is at the start of a statement
AtStatementStart(fr) ==
    fr.ip \in StatementStarts(AtBodyOf(FunctionOf(fr)), FunctionOf(fr).statements, 1)

\* how many values lie under a call when it is made: the calls of the
\* recursion programs have a left operand of + under them, every other call
\* is the whole expression of its statement
UnderCall == IF input.family = "recursion" THEN 1 ELSE 0

\* the depth of the operand stack when the i-th frame was entered
EntryDepth(i) == (i - 1) * UnderCall

\* the division by zero of the logic programs and the calls with the wrong
\* number of arguments end run() with an exception
RaisesAtRuntime ==
    \/ input.family = "logic" /\ ~(Defined(input.a) /\ Defined(input.b))
    \/ input.family = "call"
          /\ Len(input.program[1].vars)
                # Len(input.program[2].statements[1].expr.args)

\* run() of a compiled program that was loaded whole, with no exception
CompiledRun ==
    /\ input.kind = "source"
    /\ input.family # "test"
    /\ pc = "run"
    /\ ~RaisesAtRuntime

C34_StatementsAreStackNeutral ==
    CompiledRun =>
        /\ (is_active /\ call_stack # << >> /\ AtStatementStart(CurrentFrame))
              => Len(stack) = EntryDepth(Len(call_stack))
        /\ (~is_active /\ last_call = "step") => stack = << >>

\* the second activation of f is at `return m;`, with the left operands of
\* the two calls under way on the stack
C34_Witness ==
    /\ input.family = "recursion"
    /\ CompiledRun
    /\ Len(call_stack) = 3
    /\ CurrentFrame.ip = 11
    /\ AtStatementStart(CurrentFrame)
    /\ Len(stack) = 2

(***************************************************************************)
(* C35: every LOAD_LOCAL and STORE_LOCAL slot index emitted by build() for *)
(* a function is smaller than that function's num_locals, and every        *)
(* compiled function has num_locals >= num_params, so a program produced   *)
(* by build() never raises the slot-out-of-range or the                    *)
(* num_locals-below-num_params runtime error.                              *)
(***************************************************************************)
IsSlotAccess(o) == o.op \in { "LoadLocal", "StoreLocal" }

\* the slots of f's instructions are slots of f's frames
SlotsWithinLocals(f) ==
    /\ \A i \in 1..Len(f.code) :
          IsSlotAccess(f.code[i]) => f.code[i].slot < f.num_locals
    /\ f.num_locals >= f.num_params

LocalsErrors ==
    { "VM: LOAD_LOCAL out of range", "VM: STORE_LOCAL out of range",
      "VM call: num_locals must be >= num_params" }

C35_SlotsWithinNumLocals ==
    input.kind = "source" =>
        /\ Built => \A k \in 1..Len(functions) : SlotsWithinLocals(functions[k])
        /\ thrown \notin LocalsErrors

\* the first activation of the recursive f has stored to its last slot, 1
C35_Witness ==
    /\ input.family = "recursion"
    /\ input.depth = 1
    /\ last_call = "step"
    /\ thrown = "none"
    /\ functions[1].num_locals = 2
    /\ functions[1].code[2] = BytecodeStoreLocal(1)
    /\ Len(call_stack) = 2
    /\ CurrentFrame = Frame(0, 2, << 1, 1 >>)

(***************************************************************************)
(* C36: locals are private to a frame: a STORE_LOCAL executed in one frame *)
(* never changes a local of any other frame on the call stack, including   *)
(* other activations of the same function during recursion, and when a     *)
(* callee returns the caller's locals are exactly what they were when the  *)
(* call was made and the caller resumes at the instruction after the call. *)
(***************************************************************************)
\* the frames under the current one are after the step what they were
FramesBelowKept ==
    \A k \in 1..(Len(call_stack) - 1) :
        k <= Len(call_stack') /\ call_stack'[k] = call_stack[k]

\* the current frame after a STORE_LOCAL: the slot holds the top of the stack
Stored ==
    [CurrentFrame EXCEPT !.ip = @ + 1,
                         !.locals[CurrentOp.slot + 1] = stack[Len(stack)]]

FramesArePrivate ==
    (StepCalled /\ Fetches) =>
        /\ FramesBelowKept
        /\ (Executed /\ CurrentOp.op = "StoreLocal") =>
              call_stack' = [call_stack EXCEPT ![Len(call_stack)] = Stored]
        /\ (Executed /\ CurrentOp.op = "Return") =>
              call_stack' = SubSeq(call_stack, 1, Len(call_stack) - 1)
        /\ (Executed /\ IsCall(CurrentOp) /\ Callee.code # << >>) =>
              SubSeq(call_stack', 1, Len(call_stack)) = Advanced
        /\ (CurrentOp.op # "StoreLocal" /\ Len(call_stack') >= Len(call_stack)) =>
              call_stack'[Len(call_stack)].locals = CurrentFrame.locals

\* what the recursion program prints: start + depth + ... + 1
RecursionPrints == << input.start + (input.depth * (input.depth + 1)) \div 2 >>

C36_LocalsArePrivate ==
    /\ [][FramesArePrivate]_vars
    /\ []((input.family = "recursion" /\ Halted) => print_buffer = RecursionPrints)

\* f(0), called by f(1), has stored 0 to its m; the m of f(1) still holds 1
\* and main's r still holds 5
C36_Witness ==
    /\ input.family = "recursion"
    /\ input.start = 5
    /\ input.depth = 1
    /\ last_call = "step"
    /\ thrown = "none"
    /\ call_stack = << Frame(1, 5, << 5 >>), Frame(0, 9, << 1, 1 >>),
                       Frame(0, 2, << 0, 0 >>) >>

(***************************************************************************)
(* vm.reset(); vm.run(): the run to completion.                            *)
(***************************************************************************)
\* vm.reset() of a loaded program; an exception ends the driver
RunReset ==
    /\ pc = "run"
    /\ SetVM(reset(VM), "reset")
    /\ pc' = IF Ok(reset(VM)) THEN "running" ELSE "raised"
    /\ UNCHANGED << input, builder_vars, front_vars >>

\* one iteration of run(): is_active_ holds and step() is called; an
\* exception of step() leaves run()
RunStep ==
    /\ pc = "running"
    /\ is_active
    /\ WithinBounds
    /\ \E m \in step_outcomes(VM) :
          /\ SetVM(m, "step")
          /\ pc' = IF m.signal # "none" THEN "killed"
                   ELSE IF Ok(m) THEN "running" ELSE "raised"
    /\ UNCHANGED << input, builder_vars, front_vars >>

\* run() finds is_active_ false and returns
RunReturns ==
    /\ pc = "running"
    /\ ~is_active
    /\ pc' = "halted"
    /\ UNCHANGED << input, builder_vars, vm_vars, last_call, thrown, front_vars >>

RunNext ==
    Build \/ AddFunction \/ SetEntryFunction \/ RunReset \/ RunStep \/ RunReturns

\* run() is sequential code: its loop goes on while it can
RunSpec == Init /\ [][RunNext]_vars /\ WF_vars(RunStep) /\ WF_vars(RunReturns)

RECURSIVE AnyWhile(_, _)
\* a while statement among sts[i..], at any depth
AnyWhile(sts, i) ==
    IF i > Len(sts) THEN FALSE
    ELSE LET st == sts[i] IN
         \/ st.kind = "WhileStatement"
         \/ st.kind = "ScopeStatement" /\ AnyWhile(st.scope, 1)
         \/ st.kind = "IfStatement"
            /\ (AnyWhile(st.then_scope, 1) \/ AnyWhile(st.else_scope, 1))
         \/ st.kind = "FunctionStatement" /\ AnyWhile(st.statements, 1)
         \/ AnyWhile(sts, i + 1)

\* a jump of fns whose target is not after it
BackwardJump(fns) ==
    \E k \in DOMAIN fns : \E i \in DOMAIN fns[k].code :
        IsJump(fns[k].code[i]) /\ fns[k].code[i].target_ip < i

\* the functions that function k of fns calls
CallsOf(fns, k) ==
    { fns[k].code[i].func_id + 1 : i \in { j \in DOMAIN fns[k].code : IsCall(fns[k].code[j]) } }
        \cap DOMAIN fns

RECURSIVE CalledWithin(_, _, _)
\* the functions reached from those of S by at most n further calls
CalledWithin(fns, S, n) ==
    IF n = 0 THEN S
    ELSE CalledWithin(fns, S \cup UNION { CallsOf(fns, k) : k \in S }, n - 1)

\* some function of fns calls itself, directly or through others
Recursive(fns) ==
    \E k \in DOMAIN fns : k \in CalledWithin(fns, CallsOf(fns, k), Len(fns))

\* the loaded program has no while loop (no backward jump, for bytecode
\* written by hand) and no recursive call
LoopFree ==
    /\ input.kind = "source" => ~AnyWhile(input.program, 1)
    /\ input.kind = "bytecode" => ~BackwardJump(vm_functions)
    /\ ~Recursive(vm_functions)

\* how a run() can end: it returned, it threw, or the process was killed
RunEnded == {"halted", "raised", "killed"}

FetchesArithmetic ==
    /\ Fetches
    /\ CurrentOp.op \in {"Add", "Sub", "Mult", "Div", "Mod"}
    /\ Len(stack) >= 2
    /\ CurrentOp.op \in {"Div", "Mod"} => stack[Len(stack)] # 0

FetchesNegation == Fetches /\ CurrentOp.op = "NEG" /\ Len(stack) >= 1

\* the quotient that truncates toward zero: the remainder is smaller than the
\* divisor and has the sign of the dividend
Quotient(l, r) ==
    CHOOSE q \in (MinI64 - 1)..(MaxI64 + 1) :
        LET rem == l - q * r IN
        Abs(rem) < Abs(r) /\ (rem = 0 \/ (rem > 0) = (l > 0))

\* the mathematical result of the fetched instruction
Mathematical ==
    LET l == IF CurrentOp.op = "NEG" THEN 0 ELSE stack[Len(stack) - 1]
        r == stack[Len(stack)]
    IN CASE CurrentOp.op = "Add" -> l + r
         [] CurrentOp.op = "Sub" -> l - r
         [] CurrentOp.op = "Mult" -> l * r
         [] CurrentOp.op = "Div" -> Quotient(l, r)
         [] CurrentOp.op = "Mod" -> l - Quotient(l, r) * r
         [] CurrentOp.op = "NEG" -> 0 - r

Operands == IF CurrentOp.op = "NEG" THEN 1 ELSE 2

\* the step completes and leaves, in place of the operands, the value of i64
\* that is the mathematical result modulo 2^64
PushesWrapped ==
    /\ pc' = pc
    /\ thrown' = "none"
    /\ Len(stack') = Len(stack) - Operands + 1
    /\ SubSeq(stack', 1, Len(stack') - 1) = SubSeq(stack, 1, Len(stack) - Operands)
    /\ LET v == stack'[Len(stack')] IN
       /\ MinI64 <= v /\ v <= MaxI64
       /\ (v - Mathematical) % Modulus = 0

ArithmeticCompletes ==
    (StepCalled /\ (FetchesArithmetic \/ FetchesNegation)) => PushesWrapped

\* C38: ADD, SUB, MULT, NEG, and DIV and MOD with a nonzero right operand
\* complete without error for all operands and push the result wrapped into
\* i64, INT64_MIN / -1, INT64_MIN % -1 and -INT64_MIN included; DIV truncates
\* toward zero and MOD has the sign of the left operand
C38_ArithmeticWraps == [][ArithmeticCompletes]_vars

\* INT64_MIN / -1 has killed the process
C38_Witness ==
    /\ input.family = "division"
    /\ pc = "killed"
    /\ last_call = "step"
    /\ stack = << MinI64, -1 >>
    /\ CurrentOp.op = "Div"

\* C++ defines the operation step() is about to evaluate
DefinedOperation == ~DivisionOverflows(VM) /\ ~SignedOverflows(VM)

\* what holds: a defined operation completes and pushes exactly the
\* mathematical result
DefinedArithmeticCompletes ==
    [][(StepCalled /\ (FetchesArithmetic \/ FetchesNegation) /\ DefinedOperation)
          => PushesWrapped /\ stack'[Len(stack')] = Mathematical]_vars

(***************************************************************************)
(* `int x = e;` with x inside e.                                           *)
(***************************************************************************)
\* the slot declare_local gives the x of `int x = x + add;`
SelfSlot == IF input.shape = "under" THEN 1 ELSE 0

\* where the declaration's code begins in main: first, or after the two
\* instructions of the declaration before it
SelfAt == IF input.shape = "alone" THEN 1 ELSE 3

\* the declaration compiled with x resolved to its own slot
SelfCode ==
    << BytecodeLoadLocal(SelfSlot), BytecodePushI64(input.add), Bytecode("Add"),
       BytecodeStoreLocal(SelfSlot) >>

\* what the slot holds when x is read: the 0 of a fresh frame, or the value
\* the y of the closed block left in it
SelfHeld == IF input.shape = "after" THEN input.outer ELSE 0

SelfPrints ==
    IF input.shape = "under" THEN << SelfHeld + input.add, input.outer >>
    ELSE << SelfHeld + input.add >>

DeclaredBeforeInitializer ==
    /\ pc # "failed"
    /\ last_call = "build" => thrown = "none"
    /\ pc \in {"load", "run"} =>
          /\ Len(functions[1].code) >= SelfAt + 3
          /\ SubSeq(functions[1].code, SelfAt, SelfAt + 3) = SelfCode
    /\ Halted => print_buffer = SelfPrints

\* C39: in `int x = e;` x is declared before e is compiled: an x inside e is
\* the new slot, read with whatever it holds, not the x of an enclosing
\* scope, and `int x = x;` without an outer x compiles
C39_DeclaredBeforeInitializer == input.family = "self" => DeclaredBeforeInitializer

\* { int x = x + 1; print x; } under int x = 5 has printed 1, and the outer
\* x is still 5
C39_Witness ==
    /\ input.family = "self"
    /\ input.shape = "under"
    /\ input.outer = 5
    /\ input.add = 1
    /\ Halted
    /\ print_buffer = << 1, 5 >>

====
